---- MODULE Spec2Model ----
(***************************************************************************)
(* A model of the Sourashtra dictionary CSV tools: the field-count         *)
(* validator, the bracket cleanup, the column reverser, the term splitter, *)
(* the transliterator, the constraint analyzer and the dictpress           *)
(* converter.  Text is a sequence of one-character strings, a CSV row is a *)
(* sequence of texts, a file is a sequence of rows (or of physical lines   *)
(* where the tool reads raw lines).                                        *)
(***************************************************************************)
EXTENDS Integers, Sequences, FiniteSets, TLC

VARIABLES
    script,          \* which tool this run is
    pc,              \* position of main(): "start", "loop" (at the head of the file loop),
                     \* "infile" (in the row loop), "checked" (the file-level call
                     \* returned success), "done"
    expected_fields, \* validator: args.fields
    dir_names,       \* names of the CSV files the input directory holds
    csv_files,       \* sorted(dir.glob('*.csv'))
    file_idx,        \* index in csv_files of the file being processed (0: none yet)
    cur_file,        \* content of the file being processed
    line_num,        \* rows of cur_file the reader has yielded so far
    is_valid,        \* result of the last file-level call (success / is_valid)
    error_info,      \* validator: error_info['line_number'] of the last call
    valid_files,     \* valid_files / processed_files
    verdicts,        \* history: the result of each file-level call so far, in order
    summary,         \* the counts printed by the summary (<<>>: none printed)
    exit_code,       \* -1 while running, then the process's exit status
    out_file,        \* content of the current file's output path (NoFile: not there)
    written,         \* names of the output files this run has opened for writing
    lines_processed, \* lines_processed of the file-level call in progress
    total_lines,     \* main()'s running total of lines
    dry_run,         \* cleanup: args.dry_run
    overwrite_mode,  \* cleanup: overwrite_mode (the output path is the input path)
    changes_made,    \* cleanup: len(changes_made) of the last file-level call
    total_bracket_terms_removed, \* cleanup: main()'s running total
    total_changes_made,          \* cleanup: main()'s running total
    expanded_lines,  \* splitter: expanded_lines of the last file-level call
    total_expanded_lines, \* splitter: main()'s running total
    all_processed_rows, \* transliterator: all_processed_rows of the call in progress
    calls,           \* history: transliterate.process calls made for the row read last
    lookup_failures, \* history: external lookups (transliterations, NLTK) that raised
    report,          \* analyzer: what analyze_file has printed for each file, in order
    main_terms,      \* history: the main-entry terms of each file analyzed, in order
    failed_files,    \* converter: failed_files
    existing_is_output, \* converter: --existing-dir is the output directory (the default)
    dictpress_terms, \* converter: for each file name of the existing-terms directory, the
                     \* main-entry terms the file holds (none: no such file)
    dictpress_before, \* history: dictpress_terms as it was when the run started
    arg,             \* the argument of the function call a function-level run makes
    res              \* its result

\* the state every main() loop keeps
mainVars == <<script, pc, dir_names, csv_files, file_idx, cur_file, line_num,
              is_valid, valid_files, verdicts, summary, exit_code>>
\* the validator's own state
valVars == <<expected_fields, error_info>>
\* the output side of the tools that write files
outVars == <<out_file, written, lines_processed, total_lines>>

\* the cleanup's own state
clnVars == <<dry_run, overwrite_mode, changes_made, total_bracket_terms_removed,
             total_changes_made>>
\* the splitter's own state
splVars == <<expanded_lines, total_expanded_lines>>
\* the transliterator's own state, and the history of the external calls
trlVars == <<all_processed_rows, calls, lookup_failures>>
\* the analyzer's own state
anlVars == <<report, main_terms>>
\* the converter's own state
cnvVars == <<failed_files, existing_is_output, dictpress_terms, dictpress_before>>
\* the state of a run that calls one function once
fnVars == <<arg, res>>

vars == <<mainVars, valVars, outVars, clnVars, splVars, trlVars, anlVars, cnvVars, fnVars>>

\* what the validator never touches
valIdle == <<outVars, clnVars, splVars, trlVars, anlVars, cnvVars, fnVars>>
\* what the cleanup never touches
clnIdle == <<valVars, splVars, trlVars, anlVars, cnvVars, fnVars>>
\* what the reverser never touches
revIdle == <<valVars, clnVars, splVars, trlVars, anlVars, cnvVars, fnVars>>
\* what the splitter never touches
splIdle == <<valVars, clnVars, trlVars, anlVars, cnvVars, fnVars>>
\* what the transliterator never touches
trlIdle == <<valVars, clnVars, splVars, anlVars, cnvVars, fnVars>>
\* what the analyzer never touches
anlIdle == <<valVars, outVars, clnVars, splVars, trlVars, cnvVars, fnVars>>
\* what a function-level run never touches
fnIdle == <<dir_names, csv_files, file_idx, cur_file, line_num, is_valid, valid_files,
            verdicts, summary, exit_code, valVars, outVars, clnVars, splVars, trlVars,
            anlVars, cnvVars>>
\* what the converter never touches
cnvIdle == <<valVars, overwrite_mode, changes_made, total_bracket_terms_removed,
             total_changes_made, all_processed_rows, calls, anlVars, fnVars>>

----------------------------------------------------------------------------
(* Bounds *)

MaxFiles == 2
MaxRows == 2
MaxFields == 2

----------------------------------------------------------------------------
(* The values of the variables a tool does not have *)

NoError == -1
NoFile == <<"no file">>

ValUnused == expected_fields = 0 /\ error_info = NoError
OutUnused == out_file = NoFile /\ written = {} /\ lines_processed = 0 /\ total_lines = 0
ClnUnused ==
    /\ dry_run = FALSE /\ overwrite_mode = FALSE /\ changes_made = 0
    /\ total_bracket_terms_removed = 0 /\ total_changes_made = 0
SplUnused == expanded_lines = 0 /\ total_expanded_lines = 0
TrlUnused == all_processed_rows = <<>> /\ calls = 0 /\ lookup_failures = 0
AnlUnused == report = <<>> /\ main_terms = <<>>
CnvUnused ==
    /\ failed_files = 0 /\ existing_is_output = FALSE
    /\ dictpress_terms = [n \in 0..MaxFiles |-> {}]
    /\ dictpress_before = dictpress_terms
FnUnused == arg = <<>> /\ res = <<>>

ValIdleInit == OutUnused /\ ClnUnused /\ SplUnused /\ TrlUnused /\ AnlUnused /\ CnvUnused /\ FnUnused
ClnIdleInit == ValUnused /\ SplUnused /\ TrlUnused /\ AnlUnused /\ CnvUnused /\ FnUnused
RevIdleInit == ValUnused /\ ClnUnused /\ SplUnused /\ TrlUnused /\ AnlUnused /\ CnvUnused /\ FnUnused
SplIdleInit == ValUnused /\ ClnUnused /\ TrlUnused /\ AnlUnused /\ CnvUnused /\ FnUnused
TrlIdleInit == ValUnused /\ ClnUnused /\ SplUnused /\ AnlUnused /\ CnvUnused /\ FnUnused
AnlIdleInit == ValUnused /\ OutUnused /\ ClnUnused /\ SplUnused /\ TrlUnused /\ CnvUnused /\ FnUnused
\* a function-level run has no directory, no files and no exit
FnIdleInit ==
    /\ dir_names = {} /\ csv_files = <<>> /\ file_idx = 0 /\ cur_file = <<>> /\ line_num = 0
    /\ is_valid = TRUE /\ valid_files = 0 /\ verdicts = <<>> /\ summary = <<>>
    /\ exit_code = -1
    /\ ValUnused /\ OutUnused /\ ClnUnused /\ SplUnused /\ TrlUnused /\ AnlUnused
    /\ CnvUnused

----------------------------------------------------------------------------
(* Text *)

SP == " "
NL == "\n"
CR == "\r"

IsSpace(c) == c \in {SP, NL}

RECURSIVE LStrip(_)
LStrip(t) == IF t # <<>> /\ IsSpace(Head(t)) THEN LStrip(Tail(t)) ELSE t

RECURSIVE RStrip(_)
RStrip(t) ==
    IF t # <<>> /\ IsSpace(t[Len(t)]) THEN RStrip(SubSeq(t, 1, Len(t) - 1)) ELSE t

\* str.strip()
Strip(t) == RStrip(LStrip(t))

\* all sequences over S of length 0..n
RECURSIVE SeqsUpTo(_, _)
SeqsUpTo(S, n) ==
    IF n = 0 THEN {<<>>}
    ELSE LET P == SeqsUpTo(S, n - 1)
         IN  P \cup {Append(p, x) : p \in {q \in P : Len(q) = n - 1}, x \in S}

\* sorted(): the ascending sequence of a set of integers
RECURSIVE SortedSeq(_)
SortedSeq(S) ==
    IF S = {} THEN <<>>
    ELSE LET m == CHOOSE x \in S : \A y \in S : x <= y
         IN  <<m>> \o SortedSeq(S \ {m})

\* the function fn with its values computed once
Tabulated(fn) == fn @@ <<>>

\* "not any(field.strip() for field in row)"
IsBlankRow(row) == \A i \in 1..Len(row) : Strip(row[i]) = <<>>

----------------------------------------------------------------------------
(* The csv module, as the tools use it: delimiter ',', quotechar '"',       *)
(* doublequote, minimal quoting, not strict.  A file's text is a sequence  *)
(* of characters in which NL ends a physical line.                         *)

COMMA == ","
QUOTE == "\""

\* csv.reader: the rows of a text.  st is the reader's state, field and row what it
\* has collected of the current record, rows the records already returned.
RECURSIVE csv_parse_from(_, _, _, _, _, _)
csv_parse_from(text, i, st, field, row, rows) ==
    IF i > Len(text)
    THEN \* end of input: an unfinished record is returned as it stands
         IF st = "START_RECORD" THEN rows ELSE Append(rows, Append(row, field))
    ELSE LET c == text[i] IN
         CASE st = "START_RECORD" ->
                  IF c = NL THEN csv_parse_from(text, i + 1, "START_RECORD", <<>>, <<>>, Append(rows, <<>>))
                  ELSE csv_parse_from(text, i, "START_FIELD", <<>>, <<>>, rows)
           [] st = "START_FIELD" ->
                  IF c = NL THEN csv_parse_from(text, i + 1, "START_RECORD", <<>>, <<>>, Append(rows, Append(row, <<>>)))
                  ELSE IF c = QUOTE THEN csv_parse_from(text, i + 1, "IN_QUOTED_FIELD", <<>>, row, rows)
                  ELSE IF c = COMMA THEN csv_parse_from(text, i + 1, "START_FIELD", <<>>, Append(row, <<>>), rows)
                  ELSE csv_parse_from(text, i + 1, "IN_FIELD", <<c>>, row, rows)
           [] st = "IN_FIELD" ->
                  IF c = NL THEN csv_parse_from(text, i + 1, "START_RECORD", <<>>, <<>>, Append(rows, Append(row, field)))
                  ELSE IF c = COMMA THEN csv_parse_from(text, i + 1, "START_FIELD", <<>>, Append(row, field), rows)
                  ELSE csv_parse_from(text, i + 1, "IN_FIELD", Append(field, c), row, rows)
           [] st = "IN_QUOTED_FIELD" ->
                  IF c = QUOTE THEN csv_parse_from(text, i + 1, "QUOTE_IN_QUOTED_FIELD", field, row, rows)
                  ELSE csv_parse_from(text, i + 1, "IN_QUOTED_FIELD", Append(field, c), row, rows)
           [] st = "QUOTE_IN_QUOTED_FIELD" ->
                  IF c = QUOTE THEN csv_parse_from(text, i + 1, "IN_QUOTED_FIELD", Append(field, c), row, rows)
                  ELSE IF c = COMMA THEN csv_parse_from(text, i + 1, "START_FIELD", <<>>, Append(row, field), rows)
                  ELSE IF c = NL THEN csv_parse_from(text, i + 1, "START_RECORD", <<>>, <<>>, Append(rows, Append(row, field)))
                  ELSE csv_parse_from(text, i + 1, "IN_FIELD", Append(field, c), row, rows)

\* list(csv.reader(file))
csv_parse(text) == csv_parse_from(text, 1, "START_RECORD", <<>>, <<>>, <<>>)

\* a field's characters with every quote doubled
RECURSIVE csv_double_quotes(_)
csv_double_quotes(t) ==
    IF t = <<>> THEN <<>>
    ELSE (IF Head(t) = QUOTE THEN <<QUOTE, QUOTE>> ELSE <<Head(t)>>) \o csv_double_quotes(Tail(t))

\* csv.writer: one field, quoted when it holds a delimiter, a quote or a line end
csv_write_field(t) ==
    IF \E i \in 1..Len(t) : t[i] \in {COMMA, QUOTE, NL}
    THEN <<QUOTE>> \o csv_double_quotes(t) \o <<QUOTE>>
    ELSE t

RECURSIVE csv_join(_)
csv_join(row) ==
    IF row = <<>> THEN <<>>
    ELSE IF Len(row) = 1 THEN csv_write_field(row[1])
    ELSE csv_write_field(Head(row)) \o <<COMMA>> \o csv_join(Tail(row))

\* csv.writer.writerow: the line written for a row, the writer's line terminator
\* included; a row of one empty field is written as ""
csv_writerow(row, lineterminator) ==
    (IF row = <<<<>>>> THEN <<QUOTE, QUOTE>> ELSE csv_join(row)) \o lineterminator

----------------------------------------------------------------------------
(* cleanup.py: the text functions *)

LPAR == "("
RPAR == ")"

\* the first index >= i of t that holds no whitespace (Len(t) + 1 if there is none)
RECURSIVE SkipSpaces(_, _)
SkipSpaces(t, i) ==
    IF i <= Len(t) /\ IsSpace(t[i]) THEN SkipSpaces(t, i + 1) ELSE i

\* the first index > k of t that holds ')' (0 if there is none)
RECURSIVE FirstClose(_, _)
FirstClose(t, k) ==
    IF k + 1 > Len(t) THEN 0
    ELSE IF t[k + 1] = RPAR THEN k + 1
    ELSE FirstClose(t, k + 1)

\* re.sub(r'\s*\([^)]*\)\s*', '', text) from index i on: the leftmost match is
\* removed, then the scan goes on after it
RECURSIVE sub_brackets(_, _)
sub_brackets(t, i) ==
    IF i > Len(t) THEN <<>>
    ELSE LET k == SkipSpaces(t, i) IN
         IF k <= Len(t) /\ t[k] = LPAR /\ FirstClose(t, k) # 0
         THEN sub_brackets(t, SkipSpaces(t, FirstClose(t, k) + 1))
         ELSE <<t[i]>> \o sub_brackets(t, i + 1)

\* the first index >= i of t that holds whitespace (Len(t) + 1 if there is none)
RECURSIVE SkipWord(_, _)
SkipWord(t, i) ==
    IF i <= Len(t) /\ ~IsSpace(t[i]) THEN SkipWord(t, i + 1) ELSE i

\* ' '.join(text.split()) from index i on
RECURSIVE join_split(_, _)
join_split(t, i) ==
    LET b == SkipSpaces(t, i) IN
    IF b > Len(t) THEN <<>>
    ELSE LET e == SkipWord(t, b)
             rest == join_split(t, e)
         IN  SubSeq(t, b, e - 1) \o (IF rest = <<>> THEN <<>> ELSE <<SP>> \o rest)

\* mutant of clean_bracket_terms: only the bracketed term goes, its brackets' outer
\* whitespace is left for the join
clean_bracket_terms_once(text) ==
    IF text = <<>> THEN text
    ELSE LET k == CHOOSE j \in 1..(Len(text) + 1) :
                     /\ j = Len(text) + 1 \/ (text[j] = LPAR /\ FirstClose(text, j) # 0)
                     /\ \A h \in 1..(j - 1) : ~(text[h] = LPAR /\ FirstClose(text, h) # 0)
         IN  IF k > Len(text) THEN Strip(join_split(text, 1))
             ELSE Strip(join_split(SubSeq(text, 1, k - 1)
                                   \o SubSeq(text, FirstClose(text, k) + 1, Len(text)), 1))

clean_bracket_terms(text) ==
    IF text = <<>> THEN text
    ELSE Strip(join_split(sub_brackets(text, 1), 1))

\* mutant of cln_process_csv_line: the last field is left as it is
cln_process_csv_line_skip_last(row) ==
    [i \in 1..Len(row) |-> IF i = Len(row) THEN row[i] ELSE clean_bracket_terms(row[i])]

\* process_csv_line of cleanup.py
cln_process_csv_line(row) ==
    IF row = <<>> THEN row
    ELSE [i \in 1..Len(row) |-> clean_bracket_terms(row[i])]

\* re.search(r'\([^)]*\)', field)
field_has_bracket(t) == \E k \in 1..Len(t) : t[k] = LPAR /\ FirstClose(t, k) # 0

has_bracket_terms(row) ==
    IF row = <<>> THEN FALSE
    ELSE \E i \in 1..Len(row) : field_has_bracket(row[i])

\* re.findall(r'\([^)]*\)', t) from index i on: the number of matches
RECURSIVE count_brackets(_, _)
count_brackets(t, i) ==
    IF i > Len(t) THEN 0
    ELSE IF t[i] = LPAR /\ FirstClose(t, i) # 0
         THEN 1 + count_brackets(t, FirstClose(t, i) + 1)
         ELSE count_brackets(t, i + 1)

\* ''.join(parts)
RECURSIVE Concat(_)
Concat(parts) == IF parts = <<>> THEN <<>> ELSE Head(parts) \o Concat(Tail(parts))

\* infile.readlines(): the physical lines of a text, line ends kept
RECURSIVE readlines_from(_, _, _, _)
readlines_from(text, i, line, lines) ==
    IF i > Len(text) THEN (IF line = <<>> THEN lines ELSE Append(lines, line))
    ELSE IF text[i] = NL THEN readlines_from(text, i + 1, <<>>, Append(lines, Append(line, NL)))
    ELSE readlines_from(text, i + 1, Append(line, text[i]), lines)

readlines(text) == readlines_from(text, 1, <<>>, <<>>)

\* one iteration of "for line_num, (raw_line, csv_row) in enumerate(zip(raw_lines,
\* csv_rows), 1)" of process_csv_file: the line appended to modified_content_lines,
\* whether a change was recorded, and the bracket terms counted
cln_process_pair(raw_line, csv_row) ==
    IF csv_row = <<>> \/ IsBlankRow(csv_row)
    THEN [line |-> raw_line, changed |-> FALSE, brackets |-> 0]
    ELSE IF has_bracket_terms(csv_row)
    THEN [line |-> csv_writerow(cln_process_csv_line(csv_row), <<NL>>), changed |-> TRUE,
          brackets |-> count_brackets(Concat(csv_row), 1)]
    ELSE [line |-> raw_line, changed |-> FALSE, brackets |-> 0]

\* process_csv_file of cleanup.py on a file it can read: what it returns and the
\* content it holds in modified_content_lines
cln_process_csv_file(text) ==
    LET raw_lines == readlines(text)
        csv_rows == csv_parse(text)
        n == IF Len(raw_lines) < Len(csv_rows) THEN Len(raw_lines) ELSE Len(csv_rows)
        pairs == [i \in 1..n |-> cln_process_pair(raw_lines[i], csv_rows[i])]
        RECURSIVE Sum(_)
        Sum(i) == IF i = 0 THEN 0 ELSE pairs[i].brackets + Sum(i - 1)
    IN  [lines_processed |-> n,
         bracket_terms_removed |-> Sum(n),
         changes_made |-> Cardinality({i \in 1..n : pairs[i].changed}),
         modified_content |-> Concat([i \in 1..n |-> pairs[i].line])]

\* the content of the output path after process_csv_file returned success with the
\* result r: the file is written only outside a dry run and only when a change was
\* recorded
cln_output_after(r, before, dry) ==
    IF ~dry /\ r.changes_made > 0 THEN r.modified_content ELSE before


----------------------------------------------------------------------------
(* check_csv_files.py *)

ValFieldValues == {<<SP>>, <<"a">>}
ValRows == SeqsUpTo(ValFieldValues, MaxFields)
ValFiles == SeqsUpTo(ValRows, MaxRows)
FileNames == 1..MaxFiles

\* mutant of check_row: only a row without fields counts as empty
check_row_no_strip(row, n) ==
    IF row = <<>> THEN "skip"
    ELSE IF Len(row) # n THEN "bad"
    ELSE "ok"

\* one iteration of the row loop of check_csv_file: "skip", "bad" or "ok"
check_row(row, n) ==
    IF IsBlankRow(row) THEN "skip"
    ELSE IF Len(row) # n THEN "bad"
    ELSE "ok"

\* mutant of val_csv_files: the glob's order kept, here descending
val_csv_files_unsorted(names) ==
    LET q == SortedSeq(names) IN [i \in 1..Len(q) |-> q[Len(q) + 1 - i]]

\* csv_files = sorted(csv_dir.glob('*.csv'))
val_csv_files(names) == SortedSeq(names)

ValInit ==
    /\ script = "validator"
    /\ pc = "start"
    /\ expected_fields \in 0..MaxFields
    /\ dir_names \in SUBSET FileNames
    /\ csv_files = <<>>
    /\ file_idx = 0
    /\ cur_file = <<>>
    /\ line_num = 0
    /\ is_valid = TRUE
    /\ error_info = NoError
    /\ valid_files = 0
    /\ verdicts = <<>>
    /\ summary = <<>>
    /\ exit_code = -1
    /\ ValIdleInit

\* main(): argument validation and the glob
ValStart ==
    /\ script = "validator" /\ pc = "start"
    /\ IF expected_fields <= 0
       THEN /\ pc' = "done" /\ exit_code' = 1
            /\ UNCHANGED csv_files
       ELSE /\ csv_files' = val_csv_files(dir_names)
            /\ IF dir_names = {}
               THEN pc' = "done" /\ exit_code' = 0
               ELSE pc' = "loop" /\ UNCHANGED exit_code
    /\ UNCHANGED <<script, expected_fields, dir_names, file_idx, cur_file, line_num,
                   is_valid, error_info, valid_files, verdicts, summary>>
    /\ UNCHANGED valIdle

\* the summary and exit of main()'s else branch
ValFail(line, idx) ==
    /\ is_valid' = FALSE
    /\ verdicts' = Append(verdicts, FALSE)
    /\ error_info' = line
    /\ summary' = [checked |-> idx, total |-> Len(csv_files), valid |-> valid_files]
    /\ exit_code' = 1
    /\ pc' = "done"

\* for csv_file in csv_files: open(file_path)
ValOpenFile ==
    /\ script = "validator" /\ pc = "loop" /\ file_idx < Len(csv_files)
    /\ file_idx' = file_idx + 1
    /\ line_num' = 0
    /\ \/ /\ \E f \in ValFiles : cur_file' = f
          /\ pc' = "infile"
          /\ UNCHANGED <<is_valid, verdicts, error_info, summary, exit_code>>
       \/ \* open() or the decoding raises: the except branch, line_number 0
          /\ cur_file' = <<>>
          /\ ValFail(0, file_idx + 1)
    /\ UNCHANGED <<script, expected_fields, dir_names, csv_files, valid_files>>
    /\ UNCHANGED valIdle

\* one iteration of "for line_num, row in enumerate(csv_reader, start=1)"
ValReadRow ==
    /\ script = "validator" /\ pc = "infile" /\ line_num < Len(cur_file)
    /\ line_num' = line_num + 1
    /\ IF check_row(cur_file[line_num + 1], expected_fields) = "bad"
       THEN /\ file_idx' = file_idx
            /\ ValFail(line_num + 1, file_idx)
       ELSE UNCHANGED <<file_idx, pc, is_valid, verdicts, error_info, summary, exit_code>>
    /\ UNCHANGED <<script, expected_fields, dir_names, csv_files, cur_file, valid_files>>
    /\ UNCHANGED valIdle

\* reading or decoding raises inside the row loop: the except branch, line_number 0
ValReadError ==
    /\ script = "validator" /\ pc = "infile"
    /\ ValFail(0, file_idx)
    /\ UNCHANGED <<script, expected_fields, dir_names, csv_files, file_idx, cur_file,
                   line_num, valid_files>>
    /\ UNCHANGED valIdle

\* the reader is exhausted: return True, None; valid_files += 1
ValEndOfFile ==
    /\ script = "validator" /\ pc = "infile" /\ line_num = Len(cur_file)
    /\ is_valid' = TRUE
    /\ verdicts' = Append(verdicts, TRUE)
    /\ error_info' = NoError
    /\ valid_files' = valid_files + 1
    /\ pc' = "checked"
    /\ UNCHANGED <<script, expected_fields, dir_names, csv_files, file_idx, cur_file,
                   line_num, summary, exit_code>>
    /\ UNCHANGED valIdle

\* back at the head of "for csv_file in csv_files": the file is closed
ValNextFile ==
    /\ script = "validator" /\ pc = "checked"
    /\ pc' = "loop"
    /\ cur_file' = <<>>
    /\ line_num' = 0
    /\ UNCHANGED <<script, expected_fields, dir_names, csv_files, file_idx, is_valid,
                   error_info, valid_files, verdicts, summary, exit_code>>
    /\ UNCHANGED valIdle

\* after the loop: "All CSV files are valid!"
ValAllValid ==
    /\ script = "validator" /\ pc = "loop" /\ file_idx = Len(csv_files)
    /\ summary' = [checked |-> Len(csv_files), total |-> Len(csv_files), valid |-> valid_files]
    /\ exit_code' = 0
    /\ pc' = "done"
    /\ UNCHANGED <<script, expected_fields, dir_names, csv_files, file_idx, cur_file,
                   line_num, is_valid, error_info, valid_files, verdicts>>
    /\ UNCHANGED valIdle

ValNext ==
    \/ ValStart \/ ValOpenFile \/ ValReadRow \/ ValReadError \/ ValEndOfFile
    \/ ValNextFile \/ ValAllValid

SpecValidator == ValInit /\ [][ValNext]_vars

----------------------------------------------------------------------------
(* cleanup.py: main() *)

MaxLines == 3

\* physical lines the input files are made of: an opening quote, a bracketed term that
\* closes a quoted field, a plain term, a term with a clarification
ClnLines == {<<QUOTE>>, <<LPAR, RPAR, QUOTE>>, <<"a">>,
             <<"a", SP, LPAR, "x", RPAR, COMMA, "b">>}
\* the input files: up to MaxLines lines, each with its line end
ClnTexts == {Concat([i \in 1..Len(q) |-> Append(q[i], NL)]) : q \in SeqsUpTo(ClnLines, MaxLines)}
\* the files a cleanup run outside a dry run has left in place of an input file
ClnCleaned == {cln_output_after(cln_process_csv_file(t), t, FALSE) : t \in ClnTexts}
\* what process_csv_file returns for each of the files a run can meet
ClnResults == Tabulated([f \in ClnTexts \cup ClnCleaned |-> cln_process_csv_file(f)])

ClnInit ==
    /\ script = "cleanup"
    /\ pc = "start"
    /\ dry_run \in BOOLEAN
    /\ overwrite_mode \in BOOLEAN
    /\ dry_run => overwrite_mode
    /\ dir_names \in SUBSET FileNames
    /\ csv_files = <<>>
    /\ file_idx = 0
    /\ cur_file = <<>>
    /\ line_num = 0
    /\ is_valid = TRUE
    /\ valid_files = 0
    /\ verdicts = <<>>
    /\ summary = <<>>
    /\ exit_code = -1
    /\ changes_made = 0
    /\ total_bracket_terms_removed = 0
    /\ total_changes_made = 0
    /\ OutUnused /\ ClnIdleInit

\* main() up to the file loop: the directory checks and the glob
ClnStart ==
    /\ script = "cleanup" /\ pc = "start"
    /\ \/ \* the input directory is missing or no directory
          /\ pc' = "done" /\ exit_code' = 1
          /\ UNCHANGED csv_files
       \/ /\ csv_files' = SortedSeq(dir_names)
          /\ IF dir_names = {}
             THEN pc' = "done" /\ exit_code' = 0
             ELSE pc' = "loop" /\ UNCHANGED exit_code
    /\ UNCHANGED <<script, dir_names, file_idx, cur_file, line_num, is_valid, valid_files,
                   verdicts, summary>>
    /\ UNCHANGED <<outVars, clnVars, clnIdle>>

\* one iteration of "for csv_file in csv_files" in which process_csv_file succeeds
ClnProcessFile ==
    /\ script = "cleanup" /\ pc = "loop" /\ file_idx < Len(csv_files)
    /\ \E f \in DOMAIN ClnResults :
          LET r == ClnResults[f]
              before == IF overwrite_mode THEN f ELSE NoFile
              wrote == ~dry_run /\ r.changes_made > 0
          IN  /\ cur_file' = f
              /\ line_num' = r.lines_processed
              /\ lines_processed' = r.lines_processed
              /\ changes_made' = r.changes_made
              /\ out_file' = cln_output_after(r, before, dry_run)
              /\ written' = IF wrote THEN written \cup {csv_files[file_idx + 1]} ELSE written
              /\ total_lines' = total_lines + r.lines_processed
              /\ total_bracket_terms_removed' = total_bracket_terms_removed + r.bracket_terms_removed
              /\ total_changes_made' = total_changes_made + r.changes_made
    /\ file_idx' = file_idx + 1
    /\ is_valid' = TRUE
    /\ verdicts' = Append(verdicts, TRUE)
    /\ valid_files' = valid_files + 1
    /\ pc' = "checked"
    /\ UNCHANGED <<script, dir_names, csv_files, summary, exit_code, dry_run, overwrite_mode>>
    /\ UNCHANGED clnIdle

\* one iteration in which process_csv_file catches an exception (the file cannot be
\* opened, decoded or written): the summary so far, then sys.exit(1)
ClnFileError ==
    /\ script = "cleanup" /\ pc = "loop" /\ file_idx < Len(csv_files)
    /\ file_idx' = file_idx + 1
    /\ is_valid' = FALSE
    /\ verdicts' = Append(verdicts, FALSE)
    /\ lines_processed' = 0
    /\ changes_made' = 0
    /\ summary' = [total |-> Len(csv_files), valid |-> valid_files, lines |-> total_lines,
                   brackets |-> total_bracket_terms_removed, changes |-> total_changes_made]
    /\ exit_code' = 1
    /\ pc' = "done"
    /\ UNCHANGED <<script, dir_names, csv_files, cur_file, line_num, valid_files, out_file,
                   written, total_lines, dry_run, overwrite_mode,
                   total_bracket_terms_removed, total_changes_made>>
    /\ UNCHANGED clnIdle

\* back at the head of the file loop
ClnNextFile ==
    /\ script = "cleanup" /\ pc = "checked"
    /\ pc' = "loop"
    /\ cur_file' = <<>>
    /\ line_num' = 0
    /\ out_file' = NoFile
    /\ lines_processed' = 0
    /\ changes_made' = 0
    /\ UNCHANGED <<script, dir_names, csv_files, file_idx, is_valid, valid_files, verdicts,
                   summary, exit_code, written, total_lines, dry_run, overwrite_mode,
                   total_bracket_terms_removed, total_changes_made>>
    /\ UNCHANGED clnIdle

\* after the loop: the final summary; main() returns
ClnAllDone ==
    /\ script = "cleanup" /\ pc = "loop" /\ file_idx = Len(csv_files)
    /\ summary' = [valid |-> valid_files, lines |-> total_lines,
                   brackets |-> total_bracket_terms_removed, changes |-> total_changes_made]
    /\ exit_code' = 0
    /\ pc' = "done"
    /\ UNCHANGED <<script, dir_names, csv_files, file_idx, cur_file, line_num, is_valid,
                   valid_files, verdicts>>
    /\ UNCHANGED <<outVars, clnVars, clnIdle>>

ClnNext == ClnStart \/ ClnProcessFile \/ ClnFileError \/ ClnNextFile \/ ClnAllDone

SpecCleanup == ClnInit /\ [][ClnNext]_vars

----------------------------------------------------------------------------
(* cleanup.py: one call of process_csv_line *)

MaxText == 4

\* every text of up to MaxText characters of a letter, a blank, a line end and brackets
ClnFieldTexts == SeqsUpTo({"a", SP, NL, LPAR, RPAR}, MaxText)

\* the row of the documented example and the row it is documented to become
ClnExampleRow ==
    <<<<"w", "o", "r", "d">>, <<"h", "i", "n">>, <<"t", "a", "m">>,
      <<"e", "n", "g", " ", "m", "e", "a", "n", "i", "n", "g", " ", "(", "a", "d", "j", ")">>,
      <<"t", "a", "m", " ", "m", "e", "a", "n", "i", "n", "g">>>>
ClnExampleCleaned ==
    <<<<"w", "o", "r", "d">>, <<"h", "i", "n">>, <<"t", "a", "m">>,
      <<"e", "n", "g", " ", "m", "e", "a", "n", "i", "n", "g">>,
      <<"t", "a", "m", " ", "m", "e", "a", "n", "i", "n", "g">>>>

ClnSampleFields == {<<>>, <<"a">>, <<LPAR, "a", RPAR>>, <<"a", SP, LPAR, "x", RPAR>>,
                    <<"a", SP, LPAR, "x", RPAR, SP, "b">>}
\* the rows the call is made with: every one-field row of a text of ClnFieldTexts, the
\* rows of up to MaxFields sample fields, and the documented example
ClnRows ==
    {<<t>> : t \in ClnFieldTexts} \cup SeqsUpTo(ClnSampleFields, MaxFields) \cup {ClnExampleRow}

ClnRowInit ==
    /\ script = "cleanup.process_csv_line"
    /\ pc = "start"
    /\ arg \in ClnRows
    /\ res = <<>>
    /\ FnIdleInit

\* cleaned_row = process_csv_line(csv_row)
ClnRowCall ==
    /\ script = "cleanup.process_csv_line" /\ pc = "start"
    /\ res' = cln_process_csv_line(arg)
    /\ pc' = "done"
    /\ UNCHANGED <<script, arg>>
    /\ UNCHANGED fnIdle

SpecCleanRow == ClnRowInit /\ [][ClnRowCall]_vars

----------------------------------------------------------------------------
(* process_format_csv.py *)

RevColumns == 5

\* open(path, 'r') without newline='': every "\r\n" and every "\r" is read as "\n"
RECURSIVE text_mode(_)
text_mode(t) ==
    IF t = <<>> THEN <<>>
    ELSE IF Head(t) = CR
         THEN <<NL>> \o text_mode(IF Len(t) > 1 /\ t[2] = NL THEN Tail(Tail(t)) ELSE Tail(t))
         ELSE <<Head(t)>> \o text_mode(Tail(t))

\* mutant of rev_reversed_row: the first and the last column change places only
rev_reversed_row_ends(row) == <<row[5], row[2], row[3], row[4], row[1]>>

\* reversed_row = [row[4], row[3], row[2], row[1], row[0]]
rev_reversed_row(row) == <<row[5], row[4], row[3], row[2], row[1]>>

\* mutant of rev_row: a row with another column count is passed over
rev_row_lenient(row) ==
    IF IsBlankRow(row) THEN "skip"
    ELSE IF Len(row) # RevColumns THEN "skip"
    ELSE "ok"

\* one iteration of the row loop of process_csv_file: "skip", "bad" or "ok"
rev_row(row) ==
    IF IsBlankRow(row) THEN "skip"
    ELSE IF Len(row) # RevColumns THEN "bad"
    ELSE "ok"

\* what one iteration of the row loop appends to the output file
rev_written(row) ==
    IF rev_row(row) = "ok" THEN csv_writerow(rev_reversed_row(row), <<CR, NL>>) ELSE <<>>

\* the file name the glob matches but the subject pattern does not:
\* "Sourashtra-CIIL-List-Original_.csv"
RevNoSubject == 0
RevFileNames == {RevNoSubject} \cup FileNames

\* rows the input files are made of: a row of five columns, one with quoted columns,
\* a blank row of five columns, a blank row of two, a row of four, a row of six
RevRowSamples ==
    {<<<<"a">>, <<"b">>, <<"c">>, <<"d">>, <<"e">>>>,
     <<<<"a", COMMA>>, <<QUOTE>>, <<>>, <<"d", NL>>, <<SP>>>>,
     <<<<>>, <<SP>>, <<>>, <<>>, <<>>>>,
     <<<<>>, <<>>>>,
     <<<<"a">>, <<"b">>, <<"c">>, <<"d">>>>,
     <<<<"a">>, <<"b">>, <<"c">>, <<"d">>, <<"e">>, <<"f">>>>}
RevFiles == SeqsUpTo(RevRowSamples, MaxRows)

RevInit ==
    /\ script = "reverser"
    /\ pc = "start"
    /\ dir_names \in SUBSET RevFileNames
    /\ csv_files = <<>>
    /\ file_idx = 0
    /\ cur_file = <<>>
    /\ line_num = 0
    /\ is_valid = TRUE
    /\ valid_files = 0
    /\ verdicts = <<>>
    /\ summary = <<>>
    /\ exit_code = -1
    /\ OutUnused /\ RevIdleInit

\* main() up to the file loop: the directory checks, mkdir and the glob
RevStart ==
    /\ script = "reverser" /\ pc = "start"
    /\ \/ \* the input directory is missing or no directory
          /\ pc' = "done" /\ exit_code' = 1
          /\ UNCHANGED csv_files
       \/ /\ csv_files' = SortedSeq(dir_names)
          /\ IF dir_names = {}
             THEN pc' = "done" /\ exit_code' = 0
             ELSE pc' = "loop" /\ UNCHANGED exit_code
    /\ UNCHANGED <<script, dir_names, file_idx, cur_file, line_num, is_valid, valid_files,
                   verdicts, summary>>
    /\ UNCHANGED <<outVars, revIdle>>

\* the failure branch of main(): the summary so far, then sys.exit(1)
RevFail(lines) ==
    /\ is_valid' = FALSE
    /\ verdicts' = Append(verdicts, FALSE)
    /\ lines_processed' = lines
    /\ summary' = [total |-> Len(csv_files), valid |-> valid_files, lines |-> total_lines]
    /\ exit_code' = 1
    /\ pc' = "done"

\* "if not subject: continue"
RevSkipFile ==
    /\ script = "reverser" /\ pc = "loop" /\ file_idx < Len(csv_files)
    /\ csv_files[file_idx + 1] = RevNoSubject
    /\ file_idx' = file_idx + 1
    /\ UNCHANGED <<script, pc, dir_names, csv_files, cur_file, line_num, is_valid,
                   valid_files, verdicts, summary, exit_code>>
    /\ UNCHANGED <<outVars, revIdle>>

\* process_csv_file: the two open() calls; the second creates or truncates the output
RevOpenFile ==
    /\ script = "reverser" /\ pc = "loop" /\ file_idx < Len(csv_files)
    /\ csv_files[file_idx + 1] # RevNoSubject
    /\ file_idx' = file_idx + 1
    /\ line_num' = 0
    /\ \/ /\ \E f \in RevFiles : cur_file' = f
          /\ out_file' = <<>>
          /\ written' = written \cup {csv_files[file_idx + 1]}
          /\ lines_processed' = 0
          /\ pc' = "infile"
          /\ UNCHANGED <<is_valid, verdicts, summary, exit_code>>
       \/ \* the input cannot be opened: the except branch, before the output is opened
          /\ cur_file' = <<>>
          /\ RevFail(0)
          /\ UNCHANGED <<out_file, written>>
    /\ UNCHANGED <<script, dir_names, csv_files, valid_files, total_lines>>
    /\ UNCHANGED revIdle

\* one iteration of "for row in csv_reader"
RevReadRow ==
    /\ script = "reverser" /\ pc = "infile" /\ line_num < Len(cur_file)
    /\ line_num' = line_num + 1
    /\ LET row == cur_file[line_num + 1] IN
       CASE rev_row(row) = "skip" ->
                UNCHANGED <<pc, is_valid, verdicts, summary, exit_code, out_file, lines_processed>>
         [] rev_row(row) = "bad" ->
                RevFail(lines_processed) /\ UNCHANGED out_file
         [] rev_row(row) = "ok" ->
                /\ out_file' = out_file \o rev_written(row)
                /\ lines_processed' = lines_processed + 1
                /\ UNCHANGED <<pc, is_valid, verdicts, summary, exit_code>>
    /\ UNCHANGED <<script, dir_names, csv_files, file_idx, cur_file, valid_files, written,
                   total_lines>>
    /\ UNCHANGED revIdle

\* reading, decoding or writing raises inside the row loop: the except branch
RevReadError ==
    /\ script = "reverser" /\ pc = "infile"
    /\ RevFail(0)
    /\ UNCHANGED <<script, dir_names, csv_files, file_idx, cur_file, line_num, valid_files,
                   out_file, written, total_lines>>
    /\ UNCHANGED revIdle

\* the reader is exhausted: return True, None, lines_processed
RevEndOfFile ==
    /\ script = "reverser" /\ pc = "infile" /\ line_num = Len(cur_file)
    /\ is_valid' = TRUE
    /\ verdicts' = Append(verdicts, TRUE)
    /\ valid_files' = valid_files + 1
    /\ total_lines' = total_lines + lines_processed
    /\ pc' = "checked"
    /\ UNCHANGED <<script, dir_names, csv_files, file_idx, cur_file, line_num, summary,
                   exit_code, out_file, written, lines_processed>>
    /\ UNCHANGED revIdle

\* back at the head of the file loop
RevNextFile ==
    /\ script = "reverser" /\ pc = "checked"
    /\ pc' = "loop"
    /\ cur_file' = <<>>
    /\ line_num' = 0
    /\ out_file' = NoFile
    /\ lines_processed' = 0
    /\ UNCHANGED <<script, dir_names, csv_files, file_idx, is_valid, valid_files, verdicts,
                   summary, exit_code, written, total_lines>>
    /\ UNCHANGED revIdle

\* after the loop: the final summary; main() returns
RevAllDone ==
    /\ script = "reverser" /\ pc = "loop" /\ file_idx = Len(csv_files)
    /\ summary' = [valid |-> valid_files, lines |-> total_lines]
    /\ exit_code' = 0
    /\ pc' = "done"
    /\ UNCHANGED <<script, dir_names, csv_files, file_idx, cur_file, line_num, is_valid,
                   valid_files, verdicts>>
    /\ UNCHANGED <<outVars, revIdle>>

RevNext ==
    \/ RevStart \/ RevSkipFile \/ RevOpenFile \/ RevReadRow \/ RevReadError
    \/ RevEndOfFile \/ RevNextFile \/ RevAllDone

SpecReverser == RevInit /\ [][RevNext]_vars

----------------------------------------------------------------------------
(* process_format_csv.py: one row through process_csv_file, and the row written *)
(* through it again                                                            *)

RevFieldValues == {<<>>, <<"a">>, <<"b", COMMA>>, <<QUOTE>>, <<NL>>, <<SP>>}
\* every row of RevColumns columns of these values, and the sample rows
RevRows ==
    {<<a, b, c, d, e>> : a \in RevFieldValues, b \in RevFieldValues, c \in RevFieldValues,
                         d \in RevFieldValues, e \in RevFieldValues} \cup RevRowSamples

\* the output file process_csv_file has written when its row loop ends or returns,
\* for an input file of these rows read from row i on
RECURSIVE rev_output(_, _)
rev_output(rows, i) ==
    IF i > Len(rows) \/ rev_row(rows[i]) = "bad" THEN <<>>
    ELSE rev_written(rows[i]) \o rev_output(rows, i + 1)

RevRowInit ==
    /\ script = "reverser.row"
    /\ pc = "start"
    /\ arg \in RevRows
    /\ res = <<>>
    /\ FnIdleInit

\* process_csv_file over a file that holds the row
RevRowWrite ==
    /\ script = "reverser.row" /\ pc = "start"
    /\ res' = <<rev_output(<<arg>>, 1)>>
    /\ pc' = "written"
    /\ UNCHANGED <<script, arg>>
    /\ UNCHANGED fnIdle

\* process_csv_file over the file the first call wrote
RevRowAgain ==
    /\ script = "reverser.row" /\ pc = "written"
    /\ res' = Append(res, rev_output(csv_parse(text_mode(res[1])), 1))
    /\ pc' = "done"
    /\ UNCHANGED <<script, arg>>
    /\ UNCHANGED fnIdle

SpecReverseRow == RevRowInit /\ [][RevRowWrite \/ RevRowAgain]_vars

----------------------------------------------------------------------------
(* split_terms.py: the row functions *)

SLASH == "/"

\* str.split(sep) from index i on: part is the piece being collected
RECURSIVE split_from(_, _, _, _)
split_from(t, sep, i, part) ==
    IF i > Len(t) THEN <<part>>
    ELSE IF t[i] = sep THEN <<part>> \o split_from(t, sep, i + 1, <<>>)
    ELSE split_from(t, sep, i + 1, Append(part, t[i]))

\* the loop of split_field_by_separators: split by first, strip, then split the parts
\* that hold second
RECURSIVE spl_parts(_, _, _)
spl_parts(pieces, second, i) ==
    IF i > Len(pieces) THEN <<>>
    ELSE LET part == Strip(pieces[i])
             inner == split_from(part, second, 1, <<>>)
         IN  (IF \E k \in 1..Len(part) : part[k] = second
              THEN [k \in 1..Len(inner) |-> Strip(inner[k])]
              ELSE <<part>>) \o spl_parts(pieces, second, i + 1)

split_field_by_separators(field) ==
    IF Strip(field) = <<>> THEN <<<<>>>>
    ELSE LET f == Strip(field) IN
         IF Head(f) = QUOTE /\ f[Len(f)] = QUOTE
         THEN spl_parts(split_from(SubSeq(f, 2, Len(f) - 1), COMMA, 1, <<>>), SLASH, 1)
         ELSE spl_parts(split_from(f, SLASH, 1, <<>>), COMMA, 1)

\* mutant of pad_list: the list is padded with empty terms
pad_list_empty(lst, target_length) ==
    [i \in 1..(IF Len(lst) > target_length THEN Len(lst) ELSE target_length) |->
        IF i <= Len(lst) THEN lst[i] ELSE <<>>]

\* pad_list: the list is padded with its last element
pad_list(lst, target_length) ==
    IF lst = <<>> THEN [i \in 1..target_length |-> <<>>]
    ELSE [i \in 1..(IF Len(lst) > target_length THEN Len(lst) ELSE target_length) |->
             IF i <= Len(lst) THEN lst[i] ELSE lst[Len(lst)]]

\* mutant of Max3: the third list is not looked at
Max3_two(a, b, c) == IF a >= b THEN a ELSE b

Max3(a, b, c) == IF a >= b /\ a >= c THEN a ELSE IF b >= c THEN b ELSE c

\* process_csv_line of split_terms.py
spl_process_csv_line(row) ==
    IF Len(row) # 5 THEN <<row>>
    ELSE LET c1_terms == split_field_by_separators(row[1])
             c2_terms == split_field_by_separators(row[2])
             c3_terms == split_field_by_separators(row[3])
             max_terms == Max3(Len(c1_terms), Len(c2_terms), Len(c3_terms))
         IN  IF max_terms = 1 THEN <<row>>
             ELSE [i \in 1..max_terms |->
                      <<pad_list(c1_terms, max_terms)[i], pad_list(c2_terms, max_terms)[i],
                        pad_list(c3_terms, max_terms)[i], row[4], row[5]>>]

----------------------------------------------------------------------------
(* split_terms.py: one call of process_csv_line *)

\* the row of the documented example
SplExampleRow == <<<<"a", "1", "/", "a", "2">>, <<"b", "1", "/", "b", "2">>, <<"c", "1">>, <<"d">>, <<"e">>>>

SplFieldTexts == SeqsUpTo({"a", SLASH, COMMA, QUOTE, SP}, MaxText)
SplSampleFields ==
    {<<>>, <<"b">>, <<"b", SLASH, "c">>, <<SP, "b", COMMA, "c", SLASH, "d", SP>>}
\* the rows the call is made with: five columns, the first any text of SplFieldTexts,
\* the second and third sample fields; rows of one column; the documented example
SplRows ==
    {<<t, u, v, <<"d">>, <<"e", SP, "f">>>> :
        t \in SplFieldTexts, u \in SplSampleFields, v \in SplSampleFields}
    \cup {<<t>> : t \in SplSampleFields} \cup {SplExampleRow}

SplRowInit ==
    /\ script = "splitter.process_csv_line"
    /\ pc = "start"
    /\ arg \in SplRows
    /\ res = <<>>
    /\ FnIdleInit

\* expanded_rows = process_csv_line(row)
SplRowCall ==
    /\ script = "splitter.process_csv_line" /\ pc = "start"
    /\ res' = spl_process_csv_line(arg)
    /\ pc' = "done"
    /\ UNCHANGED <<script, arg>>
    /\ UNCHANGED fnIdle

SpecSplitRow == SplRowInit /\ [][SplRowCall]_vars

----------------------------------------------------------------------------
(* split_terms.py: process_csv_file and main() *)

\* field.replace('\r', '').replace('\n', ' ')
RECURSIVE clean_line_ends(_)
clean_line_ends(t) ==
    IF t = <<>> THEN <<>>
    ELSE (IF Head(t) = CR THEN <<>> ELSE IF Head(t) = NL THEN <<SP>> ELSE <<Head(t)>>)
         \o clean_line_ends(Tail(t))

\* the file a list of rows is written to by the writing loop of process_csv_file
RECURSIVE write_cleaned_rows(_)
write_cleaned_rows(rows) ==
    IF rows = <<>> THEN <<>>
    ELSE csv_writerow([i \in 1..Len(Head(rows)) |-> clean_line_ends(Head(rows)[i])], <<NL>>)
         \o write_cleaned_rows(Tail(rows))

\* the reading loop of process_csv_file from row i on: all_expanded_rows
RECURSIVE spl_expand(_, _)
spl_expand(rows, i) ==
    IF i > Len(rows) THEN <<>>
    ELSE IF rows[i] = <<>> \/ IsBlankRow(rows[i]) THEN spl_expand(rows, i + 1)
    ELSE spl_process_csv_line(rows[i]) \o spl_expand(rows, i + 1)

\* process_csv_file of split_terms.py on a file it can read and write
spl_process_csv_file(rows) ==
    [original_lines |-> Cardinality({i \in 1..Len(rows) : rows[i] # <<>> /\ ~IsBlankRow(rows[i])}),
     expanded_lines |-> Len(spl_expand(rows, 1)),
     output |-> write_cleaned_rows(spl_expand(rows, 1))]

\* rows the input files are made of: a row with composite terms, a row without, a row
\* of four columns with a composite term, a row of six columns, a blank row
SplRowSamples ==
    {<<<<"a", SLASH, "b">>, <<"c">>, <<"d", COMMA, "e">>, <<"f">>, <<"g", NL>>>>,
     <<<<"a">>, <<"b">>, <<"c">>, <<"d">>, <<"e">>>>,
     <<<<"a", SLASH, "b">>, <<"c">>, <<"d">>, <<"e">>>>,
     <<<<"a">>, <<"b">>, <<"c">>, <<"d">>, <<"e">>, <<"f">>>>,
     <<<<>>, <<SP>>>>}
SplFiles == SeqsUpTo(SplRowSamples, MaxRows)
\* what process_csv_file returns for each of them
SplResults == Tabulated([f \in SplFiles |-> spl_process_csv_file(f)])

SplInit ==
    /\ script = "splitter"
    /\ pc = "start"
    /\ dir_names \in SUBSET FileNames
    /\ csv_files = <<>>
    /\ file_idx = 0
    /\ cur_file = <<>>
    /\ line_num = 0
    /\ is_valid = TRUE
    /\ valid_files = 0
    /\ verdicts = <<>>
    /\ summary = <<>>
    /\ exit_code = -1
    /\ OutUnused /\ SplUnused /\ SplIdleInit

\* main() up to the file loop: the directory checks, mkdir and the glob
SplStart ==
    /\ script = "splitter" /\ pc = "start"
    /\ \/ \* the input directory is missing or no directory
          /\ pc' = "done" /\ exit_code' = 1
          /\ UNCHANGED csv_files
       \/ /\ csv_files' = SortedSeq(dir_names)
          /\ IF dir_names = {}
             THEN pc' = "done" /\ exit_code' = 0
             ELSE pc' = "loop" /\ UNCHANGED exit_code
    /\ UNCHANGED <<script, dir_names, file_idx, cur_file, line_num, is_valid, valid_files,
                   verdicts, summary>>
    /\ UNCHANGED <<outVars, splVars, splIdle>>

\* one iteration of "for csv_file in csv_files" in which process_csv_file succeeds
SplProcessFile ==
    /\ script = "splitter" /\ pc = "loop" /\ file_idx < Len(csv_files)
    /\ \E f \in SplFiles :
          LET r == SplResults[f]
          IN  /\ cur_file' = f
              /\ line_num' = Len(f)
              /\ lines_processed' = r.original_lines
              /\ expanded_lines' = r.expanded_lines
              /\ out_file' = r.output
              /\ total_lines' = total_lines + r.original_lines
              /\ total_expanded_lines' = total_expanded_lines + r.expanded_lines
    /\ written' = written \cup {csv_files[file_idx + 1]}
    /\ file_idx' = file_idx + 1
    /\ is_valid' = TRUE
    /\ verdicts' = Append(verdicts, TRUE)
    /\ valid_files' = valid_files + 1
    /\ pc' = "checked"
    /\ UNCHANGED <<script, dir_names, csv_files, summary, exit_code>>
    /\ UNCHANGED splIdle

\* one iteration in which process_csv_file catches an exception (the file cannot be
\* opened, decoded or written): the summary so far, then sys.exit(1)
SplFileError ==
    /\ script = "splitter" /\ pc = "loop" /\ file_idx < Len(csv_files)
    /\ file_idx' = file_idx + 1
    /\ is_valid' = FALSE
    /\ verdicts' = Append(verdicts, FALSE)
    /\ lines_processed' = 0
    /\ expanded_lines' = 0
    /\ summary' = [total |-> Len(csv_files), valid |-> valid_files, lines |-> total_lines,
                   expanded |-> total_expanded_lines]
    /\ exit_code' = 1
    /\ pc' = "done"
    /\ UNCHANGED <<script, dir_names, csv_files, cur_file, line_num, valid_files, out_file,
                   written, total_lines, total_expanded_lines>>
    /\ UNCHANGED splIdle

\* back at the head of the file loop
SplNextFile ==
    /\ script = "splitter" /\ pc = "checked"
    /\ pc' = "loop"
    /\ cur_file' = <<>>
    /\ line_num' = 0
    /\ out_file' = NoFile
    /\ lines_processed' = 0
    /\ expanded_lines' = 0
    /\ UNCHANGED <<script, dir_names, csv_files, file_idx, is_valid, valid_files, verdicts,
                   summary, exit_code, written, total_lines, total_expanded_lines>>
    /\ UNCHANGED splIdle

\* after the loop: the final summary; main() returns
SplAllDone ==
    /\ script = "splitter" /\ pc = "loop" /\ file_idx = Len(csv_files)
    /\ summary' = [valid |-> valid_files, lines |-> total_lines,
                   expanded |-> total_expanded_lines]
    /\ exit_code' = 0
    /\ pc' = "done"
    /\ UNCHANGED <<script, dir_names, csv_files, file_idx, cur_file, line_num, is_valid,
                   valid_files, verdicts>>
    /\ UNCHANGED <<outVars, splVars, splIdle>>

SplNext == SplStart \/ SplProcessFile \/ SplFileError \/ SplNextFile \/ SplAllDone

SpecSplitter == SplInit /\ [][SplNext]_vars

----------------------------------------------------------------------------
(* transliterate.py *)

TrlSchemes == <<"RomanReadable", "HK", "IAST", "IPA">>

\* transliterate.process('Saurashtra', scheme, clean_word, nativize=True) when it
\* returns: the library's rendering of the word in the scheme
transliterate_process(scheme, clean_word) == <<scheme>> \o clean_word

\* how many of the four transliterate.process calls of one transliterate_sourashtra_word
\* call return before one raises (all four: none raises)
TrlOutcomes == 0..Len(TrlSchemes)

\* transliterate_sourashtra_word, the first ok calls of transliterate.process returning
\* and the next one, if there is one, raising
transliterate_sourashtra_word(sourashtra_word, ok) ==
    IF Strip(sourashtra_word) = <<>> THEN [i \in 1..4 |-> <<>>]
    ELSE IF ok < Len(TrlSchemes) THEN [i \in 1..4 |-> <<>>]
    ELSE [i \in 1..4 |-> transliterate_process(TrlSchemes[i], Strip(sourashtra_word))]

\* mutant of trl_process_csv_line: a row whose transliteration failed is dropped
trl_process_csv_line_drop(row, ok) ==
    IF Len(row) # 5 THEN row
    ELSE IF Strip(row[1]) # <<>> /\ ok < Len(TrlSchemes) THEN <<>>
    ELSE LET t == transliterate_sourashtra_word(row[1], ok)
         IN  <<row[1], row[2], row[3], t[1], t[2], t[3], t[4], row[4], row[5]>>

\* mutant of trl_process_csv_line: the transliterations are put after the five columns
trl_process_csv_line_append(row, ok) ==
    IF Len(row) # 5 THEN row
    ELSE LET t == transliterate_sourashtra_word(row[1], ok)
         IN  <<row[1], row[2], row[3], row[4], row[5], t[1], t[2], t[3], t[4]>>

\* process_csv_line of transliterate.py
trl_process_csv_line(row, ok) ==
    IF Len(row) # 5 THEN row
    ELSE LET t == transliterate_sourashtra_word(row[1], ok)
         IN  <<row[1], row[2], row[3], t[1], t[2], t[3], t[4], row[4], row[5]>>

\* the transliterate.process calls that process_csv_line makes for a row
trl_calls(row, ok) ==
    IF Len(row) # 5 \/ Strip(row[1]) = <<>> THEN 0
    ELSE IF ok < Len(TrlSchemes) THEN ok + 1 ELSE Len(TrlSchemes)

\* rows the input files are made of: a row of five columns, a row of five columns
\* without a word, a row of four columns, a blank row
TrlRowSamples ==
    {<<<<"a", SP>>, <<"b">>, <<"c">>, <<"d">>, <<"e", NL>>>>,
     <<<<SP>>, <<"b">>, <<"c">>, <<"d">>, <<"e">>>>,
     <<<<"a">>, <<"b">>, <<"c">>, <<"d">>>>,
     <<<<>>, <<SP>>>>}
TrlFiles == SeqsUpTo(TrlRowSamples, MaxRows)

TrlInit ==
    /\ script = "transliterator"
    /\ pc = "start"
    /\ dir_names \in SUBSET FileNames
    /\ csv_files = <<>>
    /\ file_idx = 0
    /\ cur_file = <<>>
    /\ line_num = 0
    /\ is_valid = TRUE
    /\ valid_files = 0
    /\ verdicts = <<>>
    /\ summary = <<>>
    /\ exit_code = -1
    /\ OutUnused /\ TrlUnused /\ TrlIdleInit

\* main() up to the file loop: the directory checks, mkdir and the glob
TrlStart ==
    /\ script = "transliterator" /\ pc = "start"
    /\ \/ \* the input directory is missing or no directory
          /\ pc' = "done" /\ exit_code' = 1
          /\ UNCHANGED csv_files
       \/ /\ csv_files' = SortedSeq(dir_names)
          /\ IF dir_names = {}
             THEN pc' = "done" /\ exit_code' = 0
             ELSE pc' = "loop" /\ UNCHANGED exit_code
    /\ UNCHANGED <<script, dir_names, file_idx, cur_file, line_num, is_valid, valid_files,
                   verdicts, summary>>
    /\ UNCHANGED <<outVars, trlVars, trlIdle>>

\* the failure branch of main(): the summary so far, then sys.exit(1)
TrlFail ==
    /\ is_valid' = FALSE
    /\ verdicts' = Append(verdicts, FALSE)
    /\ lines_processed' = 0
    /\ summary' = [total |-> Len(csv_files), valid |-> valid_files, lines |-> total_lines]
    /\ exit_code' = 1
    /\ pc' = "done"

\* process_csv_file: open(input_file)
TrlOpenFile ==
    /\ script = "transliterator" /\ pc = "loop" /\ file_idx < Len(csv_files)
    /\ file_idx' = file_idx + 1
    /\ line_num' = 0
    /\ all_processed_rows' = <<>>
    /\ \/ /\ \E f \in TrlFiles : cur_file' = f
          /\ lines_processed' = 0
          /\ pc' = "infile"
          /\ UNCHANGED <<is_valid, verdicts, summary, exit_code>>
       \/ \* the input cannot be opened: the except branch
          /\ cur_file' = <<>>
          /\ TrlFail
    /\ UNCHANGED <<script, dir_names, csv_files, valid_files, out_file, written, total_lines,
                   calls, lookup_failures>>
    /\ UNCHANGED trlIdle

\* one iteration of "for row in csv_reader": the row is skipped, or process_csv_line
\* is called and its result kept, whatever transliterate.process did
TrlReadRow ==
    /\ script = "transliterator" /\ pc = "infile" /\ line_num < Len(cur_file)
    /\ line_num' = line_num + 1
    /\ LET row == cur_file[line_num + 1] IN
       IF row = <<>> \/ IsBlankRow(row)
       THEN calls' = 0 /\ UNCHANGED <<lines_processed, all_processed_rows, lookup_failures>>
       ELSE \E ok \in TrlOutcomes :
               /\ trl_calls(row, ok) = 0 => ok = Len(TrlSchemes)
               /\ lines_processed' = lines_processed + 1
               /\ all_processed_rows' = Append(all_processed_rows, trl_process_csv_line(row, ok))
               /\ calls' = trl_calls(row, ok)
               /\ lookup_failures' = lookup_failures + (IF ok < Len(TrlSchemes) THEN 1 ELSE 0)
    /\ UNCHANGED <<script, pc, dir_names, csv_files, file_idx, cur_file, is_valid, valid_files,
                   verdicts, summary, exit_code, out_file, written, total_lines>>
    /\ UNCHANGED trlIdle

\* reading or decoding raises inside the row loop: the except branch
TrlReadError ==
    /\ script = "transliterator" /\ pc = "infile"
    /\ TrlFail
    /\ UNCHANGED <<script, dir_names, csv_files, file_idx, cur_file, line_num, valid_files,
                   out_file, written, total_lines, trlVars>>
    /\ UNCHANGED trlIdle

\* the reader is exhausted: the output is opened and every kept row written
TrlWriteFile ==
    /\ script = "transliterator" /\ pc = "infile" /\ line_num = Len(cur_file)
    /\ \/ /\ out_file' = write_cleaned_rows(all_processed_rows)
          /\ written' = written \cup {csv_files[file_idx]}
          /\ is_valid' = TRUE
          /\ verdicts' = Append(verdicts, TRUE)
          /\ valid_files' = valid_files + 1
          /\ total_lines' = total_lines + lines_processed
          /\ pc' = "checked"
          /\ UNCHANGED <<summary, exit_code, lines_processed>>
       \/ \* the output cannot be opened: the except branch
          /\ TrlFail
          /\ UNCHANGED <<out_file, written, valid_files, total_lines>>
    /\ UNCHANGED <<script, dir_names, csv_files, file_idx, cur_file, line_num, trlVars>>
    /\ UNCHANGED trlIdle

\* back at the head of the file loop
TrlNextFile ==
    /\ script = "transliterator" /\ pc = "checked"
    /\ pc' = "loop"
    /\ cur_file' = <<>>
    /\ line_num' = 0
    /\ out_file' = NoFile
    /\ lines_processed' = 0
    /\ all_processed_rows' = <<>>
    /\ calls' = 0
    /\ UNCHANGED <<script, dir_names, csv_files, file_idx, is_valid, valid_files, verdicts,
                   summary, exit_code, written, total_lines, lookup_failures>>
    /\ UNCHANGED trlIdle

\* after the loop: the final summary; main() returns
TrlAllDone ==
    /\ script = "transliterator" /\ pc = "loop" /\ file_idx = Len(csv_files)
    /\ summary' = [valid |-> valid_files, lines |-> total_lines]
    /\ exit_code' = 0
    /\ pc' = "done"
    /\ UNCHANGED <<script, dir_names, csv_files, file_idx, cur_file, line_num, is_valid,
                   valid_files, verdicts>>
    /\ UNCHANGED <<outVars, trlVars, trlIdle>>

TrlNext ==
    \/ TrlStart \/ TrlOpenFile \/ TrlReadRow \/ TrlReadError \/ TrlWriteFile
    \/ TrlNextFile \/ TrlAllDone

SpecTranslit == TrlInit /\ [][TrlNext]_vars

----------------------------------------------------------------------------
(* analyze_constraints.py *)

\* the lines of a file whose row satisfies P, ascending
LinesWhere(rows, P(_)) == SortedSeq({i \in 1..Len(rows) : Len(rows[i]) >= 4 /\ P(rows[i])})

\* mutant of analyze_file: a main entry that appears once is reported as well
analyze_file_once(rows) ==
    LET IsMain(r) == Strip(r[1]) = <<"-">>
        IsDef(r) == Strip(r[1]) = <<"^">>
        mains == LinesWhere(rows, IsMain)
        defs == LinesWhere(rows, IsDef)
        main_counts(c) == LinesWhere(rows, LAMBDA r : IsMain(r) /\ Strip(r[3]) = c)
    IN  [main_entries |-> Len(mains),
         definition_entries |-> Len(defs),
         main_duplicates |->
            {<<Strip(rows[mains[i]][3]), main_counts(Strip(rows[mains[i]][3]))>> :
                i \in 1..Len(mains)},
         def_duplicates |-> {}]

\* analyze_file on a file it can read: the counts and the duplicates it prints, each
\* duplicate with its content and the lines it appears on
analyze_file(rows) ==
    LET IsMain(r) == Strip(r[1]) = <<"-">>
        IsDef(r) == Strip(r[1]) = <<"^">>
        mains == LinesWhere(rows, IsMain)
        defs == LinesWhere(rows, IsDef)
        main_counts(c) == LinesWhere(rows, LAMBDA r : IsMain(r) /\ Strip(r[3]) = c)
        def_counts(c, l) ==
            LinesWhere(rows, LAMBDA r : IsDef(r) /\ Strip(r[3]) = c /\ Strip(r[4]) = l)
    IN  [main_entries |-> Len(mains),
         definition_entries |-> Len(defs),
         main_duplicates |->
            {<<Strip(rows[mains[i]][3]), main_counts(Strip(rows[mains[i]][3]))>> :
                i \in {j \in 1..Len(mains) : Len(main_counts(Strip(rows[mains[j]][3]))) > 1}},
         def_duplicates |->
            {<<Strip(rows[defs[i]][3]), Strip(rows[defs[i]][4]),
               def_counts(Strip(rows[defs[i]][3]), Strip(rows[defs[i]][4]))>> :
                i \in {j \in 1..Len(defs) :
                          Len(def_counts(Strip(rows[defs[j]][3]), Strip(rows[defs[j]][4]))) > 1}}]

\* the main-entry terms analyze_file collects from a file
anl_main_terms(rows) ==
    {Strip(rows[i][3]) : i \in {j \in 1..Len(rows) : Len(rows[j]) >= 4 /\ Strip(rows[j][1]) = <<"-">>}}

\* rows the dictpress files are made of (type, initial, content, language): two main
\* entries of the term k, a main entry of the term m, a definition, a short row
AnlRowSamples ==
    {<<<<"-">>, <<"k">>, <<"k">>, <<"s">>>>,
     <<<<"-">>, <<"k">>, <<"k", SP>>, <<"s">>>>,
     <<<<"-">>, <<"m">>, <<"m">>, <<"s">>>>,
     <<<<"^">>, <<>>, <<"x">>, <<"e">>>>,
     <<<<"-">>, <<"k">>>>}
AnlFiles == SeqsUpTo(AnlRowSamples, MaxRows)
\* what analyze_file prints for each of them
AnlResults == Tabulated([f \in AnlFiles |-> analyze_file(f)])

AnlInit ==
    /\ script = "analyzer"
    /\ pc = "start"
    /\ dir_names \in SUBSET FileNames
    /\ csv_files = <<>>
    /\ file_idx = 0
    /\ cur_file = <<>>
    /\ line_num = 0
    /\ is_valid = TRUE
    /\ valid_files = 0
    /\ verdicts = <<>>
    /\ summary = <<>>
    /\ exit_code = -1
    /\ report = <<>>
    /\ main_terms = <<>>
    /\ AnlIdleInit

\* main() up to the analysis: what the path is
AnlStart ==
    /\ script = "analyzer" /\ pc = "start"
    /\ \/ \* the path does not exist, is a file that is no CSV file, or is neither a
          \* file nor a directory: a message, then main() returns
          /\ pc' = "done" /\ exit_code' = 0
          /\ UNCHANGED csv_files
       \/ \* the path is one CSV file
          /\ \E n \in dir_names : csv_files' = <<n>>
          /\ pc' = "single"
          /\ UNCHANGED exit_code
       \/ \* the path is a directory
          /\ csv_files' = SortedSeq(dir_names)
          /\ IF dir_names = {}
             THEN pc' = "done" /\ exit_code' = 0
             ELSE pc' = "loop" /\ UNCHANGED exit_code
    /\ UNCHANGED <<script, dir_names, file_idx, cur_file, line_num, is_valid, valid_files,
                   verdicts, summary>>
    /\ UNCHANGED <<anlVars, anlIdle>>

\* analyze_file(csv_file): the file is read and its report printed, or reading it
\* raises and only the error is printed
AnlAnalyzeFile ==
    /\ script = "analyzer" /\ pc \in {"loop", "single"} /\ file_idx < Len(csv_files)
    /\ file_idx' = file_idx + 1
    /\ \/ \E f \in AnlFiles :
             /\ cur_file' = f
             /\ line_num' = Len(f)
             /\ report' = Append(report, AnlResults[f])
             /\ main_terms' = Append(main_terms, anl_main_terms(f))
             /\ verdicts' = Append(verdicts, TRUE)
       \/ /\ report' = Append(report, [error |-> TRUE])
          /\ main_terms' = Append(main_terms, {})
          /\ verdicts' = Append(verdicts, FALSE)
          /\ UNCHANGED <<cur_file, line_num>>
    /\ UNCHANGED <<script, pc, dir_names, csv_files, is_valid, valid_files, summary, exit_code>>
    /\ UNCHANGED anlIdle

\* after the analysis: the summary of a directory; main() returns
AnlSummary ==
    /\ script = "analyzer" /\ pc \in {"loop", "single"} /\ file_idx = Len(csv_files)
    /\ summary' = IF pc = "loop" THEN [analyzed |-> Len(csv_files)] ELSE summary
    /\ exit_code' = 0
    /\ pc' = "done"
    /\ cur_file' = <<>>
    /\ line_num' = 0
    /\ UNCHANGED <<script, dir_names, csv_files, file_idx, is_valid, valid_files, verdicts>>
    /\ UNCHANGED <<anlVars, anlIdle>>

AnlNext == AnlStart \/ AnlAnalyzeFile \/ AnlSummary

SpecAnalyze == AnlInit /\ [][AnlNext]_vars

----------------------------------------------------------------------------
(* convert_to_dictpress.py: the row functions *)

PIPE == "|"

\* the texts the sampled meanings are, in sorted() order
CnvTextOrder == <<<<"u">>, <<"v">>, <<"x">>, <<"y">>>>
\* sorted(S) for a set S of such texts
SortedTexts(S) == SelectSeq(CnvTextOrder, LAMBDA t : t \in S)

get_first_character(text) == IF text = <<>> THEN <<>> ELSE <<text[1]>>

\* get_category_info: file 1 stands for a file name of CATEGORY_MAPPINGS
\* ('compound-verbs'), every other file for a name that gets the default
get_category_info(filename) ==
    IF filename = 1
    THEN [type |-> <<"verb">>, tags |-> <<"action", PIPE, "compound">>, category |-> <<"verb">>]
    ELSE [type |-> <<"noun">>, tags |-> <<"general">>, category |-> <<"noun">>]

\* every category has a type, so the pattern-based detection is never reached
detect_definition_type(english_meaning, category_info) == category_info.type

\* the category's tags; the sampled meanings hold none of the words that add a tag
create_semantic_tags(category_info, english_meaning) == category_info.tags

\* the sampled meanings hold none of the words that make the type "concrete"
create_metadata_json(category_info, english_meaning) ==
    <<"script:sourashtra", COMMA, "category:">> \o category_info.category
        \o <<COMMA, "type:abstract">>

\* '|'.join of the pronunciations that are not blank, stripped
RECURSIVE combine_pronunciations(_)
combine_pronunciations(prons) ==
    IF prons = <<>> THEN <<>>
    ELSE LET rest == combine_pronunciations(Tail(prons))
             pron == Strip(Head(prons))
         IN  IF pron = <<>> THEN rest
             ELSE IF rest = <<>> THEN pron
             ELSE pron \o <<PIPE>> \o rest

\* create_tsvector_tokens: the tokens of the word, the pronunciations and the
\* meanings in weight order; the lemmas of the English meaning are added when the
\* meaning is not empty and the lemmatizer neither is missing nor raises
create_tsvector_tokens(sourashtra_word, pronunciations, english_meaning, tamil_meaning, nltk_ok) ==
    <<"tokens:">> \o sourashtra_word \o Concat(pronunciations) \o english_meaning
        \o (IF english_meaning # <<>> /\ nltk_ok THEN <<"lemmas:">> \o english_meaning ELSE <<>>)
        \o tamil_meaning

\* the main row (type -) of convert_row and merge_duplicate_entries
cnv_main_row(word, tokens, tags, phones, meta) ==
    <<<<"-">>, get_first_character(word), word, <<"sourashtra">>, <<>>, <<>>, tokens, tags,
      phones, <<>>, meta>>

\* an English definition row (type ^)
cnv_english_row(english_meaning, tags, definition_type) ==
    <<<<"^">>, <<>>, english_meaning, <<"english">>, <<>>, <<"english">>, <<>>, tags, <<>>,
      definition_type, <<>>>>

\* a Tamil definition row (type ^)
cnv_tamil_row(tamil_meaning, tokens, tags, tamil_pron, definition_type) ==
    <<<<"^">>, <<>>, tamil_meaning, <<"tamil">>, <<>>, <<"tamil">>, tokens, tags, tamil_pron,
      definition_type, <<>>>>

\* mutant of convert_row: a row without a Tamil meaning gets no Tamil definition row
convert_row_skip_tamil(row, filename, nltk_ok) ==
    IF Len(row) < 9 THEN <<>>
    ELSE IF Strip(row[1]) = <<>> \/ Strip(row[8]) = <<>> THEN <<>>
    ELSE <<cnv_main_row(Strip(row[1]), <<>>, <<>>, <<>>, <<>>),
           cnv_english_row(Strip(row[8]), <<>>, <<>>)>>
         \o (IF Strip(row[9]) = <<>> THEN <<>>
             ELSE <<cnv_tamil_row(Strip(row[9]), <<>>, <<>>, <<>>, <<>>)>>)

\* convert_row; nltk_ok says whether the NLTK lookups it makes work
convert_row(row, filename, nltk_ok) ==
    IF Len(row) < 9 THEN <<>>
    ELSE LET sourashtra_word == Strip(row[1])
             english_meaning == Strip(row[8])
             tamil_meaning == Strip(row[9])
             category_info == get_category_info(filename)
             definition_type == detect_definition_type(english_meaning, category_info)
             semantic_tags == create_semantic_tags(category_info, english_meaning)
         IN  IF sourashtra_word = <<>> \/ english_meaning = <<>> THEN <<>>
             ELSE <<cnv_main_row(sourashtra_word,
                                 create_tsvector_tokens(sourashtra_word,
                                     <<Strip(row[4]), Strip(row[5]), Strip(row[6])>>,
                                     english_meaning, tamil_meaning, nltk_ok),
                                 semantic_tags,
                                 combine_pronunciations(SubSeq(row, 2, 7)),
                                 create_metadata_json(category_info, english_meaning)),
                    cnv_english_row(english_meaning, semantic_tags, definition_type),
                    cnv_tamil_row(tamil_meaning,
                                  create_tsvector_tokens(<<>>, <<tamil_meaning>>, english_meaning,
                                                         tamil_meaning, nltk_ok),
                                  semantic_tags, Strip(row[3]), definition_type)>>

\* the distinct elements of a sequence, in the order of their first occurrence
RECURSIVE FirstOccurrences(_)
FirstOccurrences(q) ==
    IF q = <<>> THEN <<>>
    ELSE LET rest == FirstOccurrences(SubSeq(q, 1, Len(q) - 1))
         IN  IF \E i \in 1..(Len(q) - 1) : q[i] = q[Len(q)] THEN rest
             ELSE Append(rest, q[Len(q)])

\* the rows merge_duplicate_entries emits for a word that has several entries
cnv_merged_rows(entries, filename, nltk_ok) ==
    LET base_entry == entries[1]
        category_info == get_category_info(filename)
        sourashtra_word == Strip(base_entry[1])
        tamil_pron == Strip(base_entry[3])
        english_meanings == {Strip(entries[i][8]) : i \in 1..Len(entries)} \ {<<>>}
        tamil_meanings == {Strip(entries[i][9]) : i \in 1..Len(entries)} \ {<<>>}
        JoinAll(q) == Concat([i \in 1..Len(q) |-> IF i = 1 THEN q[i] ELSE <<";", SP>> \o q[i]])
        all_english == JoinAll(SortedTexts(english_meanings))
        all_tamil == JoinAll(SortedTexts(tamil_meanings))
        definition_type == detect_definition_type(all_english, category_info)
        semantic_tags == create_semantic_tags(category_info, all_english)
        english == SortedTexts(english_meanings)
        tamil == SortedTexts(tamil_meanings)
    IN  <<cnv_main_row(sourashtra_word,
                       create_tsvector_tokens(sourashtra_word,
                           <<Strip(base_entry[4]), Strip(base_entry[5]), Strip(base_entry[6])>>,
                           all_english, all_tamil, nltk_ok),
                       semantic_tags,
                       combine_pronunciations(SubSeq(base_entry, 2, 7)),
                       create_metadata_json(category_info, all_english))>>
        \o [i \in 1..Len(english) |-> cnv_english_row(english[i], semantic_tags, definition_type)]
        \o [i \in 1..Len(tamil) |->
               cnv_tamil_row(tamil[i],
                             create_tsvector_tokens(<<>>, <<tamil[i]>>, <<>>, tamil[i], nltk_ok),
                             semantic_tags, tamil_pron, definition_type)]

\* mutant of merge_duplicate_entries: a word with several entries is converted from its
\* first entry alone
merge_duplicate_entries_first(rows, filename, nltk_ok) ==
    LET grouped == SelectSeq(rows, LAMBDA r : Len(r) >= 9 /\ Strip(r[1]) # <<>>)
        words == FirstOccurrences([i \in 1..Len(grouped) |-> Strip(grouped[i][1])])
        entries(w) == SelectSeq(grouped, LAMBDA r : Strip(r[1]) = w)
        RECURSIVE Emit(_)
        Emit(i) ==
            IF i > Len(words) THEN <<>>
            ELSE convert_row(entries(words[i])[1], filename, nltk_ok) \o Emit(i + 1)
    IN  [rows |-> Emit(1), duplicate_count |-> Len(grouped) - Len(words)]

\* merge_duplicate_entries: the rows are grouped by their stripped word; a word with
\* one entry is converted by convert_row, a word with more is merged
merge_duplicate_entries(rows, filename, nltk_ok) ==
    LET grouped == SelectSeq(rows, LAMBDA r : Len(r) >= 9 /\ Strip(r[1]) # <<>>)
        words == FirstOccurrences([i \in 1..Len(grouped) |-> Strip(grouped[i][1])])
        entries(w) == SelectSeq(grouped, LAMBDA r : Strip(r[1]) = w)
        RECURSIVE Emit(_)
        Emit(i) ==
            IF i > Len(words) THEN <<>>
            ELSE (IF Len(entries(words[i])) = 1
                  THEN convert_row(entries(words[i])[1], filename, nltk_ok)
                  ELSE cnv_merged_rows(entries(words[i]), filename, nltk_ok)) \o Emit(i + 1)
    IN  [rows |-> Emit(1), duplicate_count |-> Len(grouped) - Len(words)]

\* the main-entry terms load_existing_sourashtra_terms reads from one file
cnv_terms_of(rows) ==
    {Strip(rows[i][3]) : i \in {j \in 1..Len(rows) : Len(rows[j]) >= 4 /\ rows[j][1] = <<"-">>}}
        \ {<<>>}

\* mutant of load_existing_sourashtra_terms: no file of the directory is read
load_existing_sourashtra_terms_none(terms, current_file) == {}

\* load_existing_sourashtra_terms: terms[n] is what file n of the directory gives (no
\* terms where there is no such file); the file named as the current one is skipped
load_existing_sourashtra_terms(terms, current_file) ==
    UNION {terms[n] : n \in (DOMAIN terms) \ {current_file}}

\* remove_global_duplicates from index i on: a main row whose term exists is skipped
\* together with the definition rows that follow it
RECURSIVE remove_global_duplicates_from(_, _, _)
remove_global_duplicates_from(rows, existing_terms, i) ==
    IF i > Len(rows) THEN [rows |-> <<>>, skipped |-> 0]
    ELSE IF Len(rows[i]) >= 4 /\ rows[i][1] = <<"-">> /\ Strip(rows[i][3]) \in existing_terms
    THEN LET RECURSIVE Skip(_)
             Skip(j) == IF j <= Len(rows) /\ Len(rows[j]) >= 1 /\ rows[j][1] = <<"^">>
                        THEN Skip(j + 1) ELSE j
             rest == remove_global_duplicates_from(rows, existing_terms, Skip(i + 1))
         IN  [rows |-> rest.rows, skipped |-> rest.skipped + 1]
    ELSE LET rest == remove_global_duplicates_from(rows, existing_terms, i + 1)
         IN  [rows |-> <<rows[i]>> \o rest.rows, skipped |-> rest.skipped]

\* mutant of remove_global_duplicates: every row is kept
remove_global_duplicates_keep(all_output_rows, existing_terms) ==
    [rows |-> all_output_rows, skipped |-> 0]

remove_global_duplicates(all_output_rows, existing_terms) ==
    remove_global_duplicates_from(all_output_rows, existing_terms, 1)

\* deduplicate_definitions from index i on, seen the (content, language) pairs kept
RECURSIVE deduplicate_definitions_from(_, _, _)
deduplicate_definitions_from(rows, i, seen) ==
    IF i > Len(rows) THEN <<>>
    ELSE IF Len(rows[i]) >= 4 /\ rows[i][1] = <<"^">>
    THEN LET def_key == <<Strip(rows[i][3]), Strip(rows[i][4])>>
         IN  IF def_key \in seen THEN deduplicate_definitions_from(rows, i + 1, seen)
             ELSE <<rows[i]>> \o deduplicate_definitions_from(rows, i + 1, seen \cup {def_key})
    ELSE <<rows[i]>> \o deduplicate_definitions_from(rows, i + 1, seen)

\* mutant of deduplicate_definitions: the key is the content and the language as they
\* stand, not stripped
RECURSIVE deduplicate_definitions_raw_from(_, _, _)
deduplicate_definitions_raw_from(rows, i, seen) ==
    IF i > Len(rows) THEN <<>>
    ELSE IF Len(rows[i]) >= 4 /\ rows[i][1] = <<"^">>
    THEN LET def_key == <<rows[i][3], rows[i][4]>>
         IN  IF def_key \in seen THEN deduplicate_definitions_raw_from(rows, i + 1, seen)
             ELSE <<rows[i]>> \o deduplicate_definitions_raw_from(rows, i + 1, seen \cup {def_key})
    ELSE <<rows[i]>> \o deduplicate_definitions_raw_from(rows, i + 1, seen)

deduplicate_definitions_raw(all_output_rows) ==
    deduplicate_definitions_raw_from(all_output_rows, 1, {})

\* mutant of deduplicate_definitions: every row is kept
deduplicate_definitions_none(all_output_rows) == all_output_rows

deduplicate_definitions(all_output_rows) == deduplicate_definitions_from(all_output_rows, 1, {})

\* convert_file on a file it can read, from the header check to the rows it would
\* write: rows is the whole file, its header line included
cnv_convert_file(rows, filename, existing_terms, nltk_ok) ==
    LET data == Tail(rows)
        all_input_rows == SelectSeq(data, LAMBDA r : r # <<>> /\ ~IsBlankRow(r))
        merged == merge_duplicate_entries(all_input_rows, filename, nltk_ok)
        filtered == remove_global_duplicates(merged.rows, existing_terms)
        all_output_rows == deduplicate_definitions(filtered.rows)
    IN  [total_rows |-> Len(data),
         duplicate_count |-> merged.duplicate_count,
         skipped_main_entries |-> filtered.skipped,
         deduplicated_count |-> Len(filtered.rows) - Len(all_output_rows),
         all_output_rows |-> all_output_rows]

----------------------------------------------------------------------------
(* convert_to_dictpress.py: convert_file and main *)

\* rows the input files are made of: an entry, an entry of another word with the first
\* one's English meaning, a row of eight fields
CnvRowSamples ==
    {<<<<"k">>, <<"h">>, <<"t">>, <<"r">>, <<>>, <<>>, <<"i">>, <<"x">>, <<"u">>>>,
     <<<<"m">>, <<>>, <<>>, <<"r">>, <<>>, <<>>, <<>>, <<"x">>, <<"v">>>>,
     <<<<"k">>, <<"h">>, <<"t">>, <<"r">>, <<>>, <<>>, <<"i">>, <<"x">>>>}
\* the header line of an input file
CnvHeader == <<<<"w">>>>
\* files: a header line and rows, a file without a line, a file whose first line is blank
CnvFiles ==
    {<<CnvHeader>> \o rows : rows \in SeqsUpTo(CnvRowSamples, MaxRows)}
        \cup {<<>>, <<<<>>, CHOOSE r \in CnvRowSamples : r[1] = <<"m">>>>}
\* the files that have a header line
CnvReadable == {f \in CnvFiles : f # <<>> /\ f[1] # <<>>}
\* what a file of the existing-terms directory can hold before the run
CnvTermSets == {{}, {<<"k">>}}
\* the terms of the sampled rows
CnvTerms == {Strip(r[1]) : r \in CnvRowSamples}
\* what convert_file computes for each file with a header line, each file name, each
\* set of existing terms and each outcome of the NLTK lookups
CnvResults ==
    Tabulated([filename \in FileNames |-> Tabulated([nltk_ok \in BOOLEAN |->
        Tabulated([existing_terms \in SUBSET CnvTerms |->
            Tabulated([f \in CnvReadable |->
                cnv_convert_file(f, filename, existing_terms, nltk_ok)])])])])
\* the existing-terms directory before the run: a file no input file is named like, and
\* the files an earlier run has written for the input files
CnvDirectories ==
    {[n \in 0..MaxFiles |-> IF n = 0 THEN other ELSE own] :
        other \in CnvTermSets, own \in CnvTermSets}

CnvInit ==
    /\ script = "converter"
    /\ pc = "start"
    /\ dir_names \in SUBSET FileNames
    /\ csv_files = <<>>
    /\ file_idx = 0
    /\ cur_file = <<>>
    /\ line_num = 0
    /\ is_valid = TRUE
    /\ valid_files = 0
    /\ verdicts = <<>>
    /\ summary = <<>>
    /\ exit_code = -1
    /\ OutUnused /\ SplUnused
    /\ dry_run \in BOOLEAN
    /\ failed_files = 0
    /\ existing_is_output \in BOOLEAN
    /\ dictpress_terms \in CnvDirectories
    /\ dictpress_before = dictpress_terms
    /\ overwrite_mode = FALSE /\ changes_made = 0 /\ total_bracket_terms_removed = 0
    /\ total_changes_made = 0
    /\ TrlUnused /\ ValUnused /\ AnlUnused /\ FnUnused

\* main() up to the file loop: the directory checks and the glob
CnvStart ==
    /\ script = "converter" /\ pc = "start"
    /\ \/ \* the input directory is missing or no directory
          /\ pc' = "done" /\ exit_code' = 1
          /\ UNCHANGED csv_files
       \/ /\ csv_files' = SortedSeq(dir_names)
          /\ IF dir_names = {}
             THEN pc' = "done" /\ exit_code' = 0
             ELSE pc' = "loop" /\ UNCHANGED exit_code
    /\ UNCHANGED <<script, dir_names, file_idx, cur_file, line_num, is_valid, valid_files,
                   verdicts, summary>>
    /\ UNCHANGED <<outVars, splVars, dry_run, lookup_failures, cnvVars, cnvIdle>>

\* one iteration of "for csv_file in csv_files" in which convert_file returns success;
\* nltk_ok says whether the NLTK lookups of this call work or raise
CnvConvertFile ==
    /\ script = "converter" /\ pc = "loop" /\ file_idx < Len(csv_files)
    /\ \E f \in CnvReadable, nltk_ok \in BOOLEAN :
          LET name == csv_files[file_idx + 1]
              existing_terms == load_existing_sourashtra_terms(dictpress_terms, name)
              r == CnvResults[name][nltk_ok][existing_terms][f]
              looked_up == \E i \in 2..Len(f) : Len(f[i]) >= 9
              writes == ~dry_run /\ r.all_output_rows # <<>>
          IN  /\ ~looked_up => nltk_ok
              /\ cur_file' = f
              /\ line_num' = Len(f)
              /\ lines_processed' = r.total_rows
              /\ expanded_lines' = Len(r.all_output_rows)
              /\ total_lines' = total_lines + r.total_rows
              /\ total_expanded_lines' = total_expanded_lines + Len(r.all_output_rows)
              /\ lookup_failures' = lookup_failures + (IF nltk_ok THEN 0 ELSE 1)
              /\ IF writes
                 THEN /\ out_file' = r.all_output_rows
                      /\ written' = written \cup {name}
                      /\ dictpress_terms' =
                            IF existing_is_output
                            THEN [dictpress_terms EXCEPT ![name] = cnv_terms_of(r.all_output_rows)]
                            ELSE dictpress_terms
                 ELSE UNCHANGED <<out_file, written, dictpress_terms>>
    /\ file_idx' = file_idx + 1
    /\ is_valid' = TRUE
    /\ verdicts' = Append(verdicts, TRUE)
    /\ valid_files' = valid_files + 1
    /\ pc' = "checked"
    /\ UNCHANGED <<script, dir_names, csv_files, summary, exit_code, dry_run, failed_files,
                   existing_is_output, dictpress_before>>
    /\ UNCHANGED cnvIdle

\* mutant of CnvFileFailed: the first file that fails ends the run, as in the cleanup
CnvFileFailed_stop ==
    /\ script = "converter" /\ pc = "loop" /\ file_idx < Len(csv_files)
    /\ cur_file' = NoFile
    /\ file_idx' = file_idx + 1
    /\ is_valid' = FALSE
    /\ verdicts' = Append(verdicts, FALSE)
    /\ failed_files' = failed_files + 1
    /\ lines_processed' = 0
    /\ expanded_lines' = 0
    /\ summary' = [total |-> Len(csv_files), valid |-> valid_files, failed |-> failed_files + 1,
                   lines |-> total_lines, output |-> total_expanded_lines]
    /\ exit_code' = 1
    /\ pc' = "done"
    /\ UNCHANGED <<script, dir_names, csv_files, line_num, valid_files,
                   out_file, written, total_lines, total_expanded_lines, dry_run,
                   lookup_failures, existing_is_output, dictpress_terms, dictpress_before>>
    /\ UNCHANGED cnvIdle

\* one iteration in which convert_file returns failure: the file has no header line,
\* or reading it raises; main() counts the failure and goes on
CnvFileFailed ==
    /\ script = "converter" /\ pc = "loop" /\ file_idx < Len(csv_files)
    /\ \/ \E f \in CnvFiles :
             /\ IF f = <<>> THEN TRUE ELSE f[1] = <<>>
             /\ cur_file' = f
       \/ cur_file' = NoFile
    /\ file_idx' = file_idx + 1
    /\ is_valid' = FALSE
    /\ verdicts' = Append(verdicts, FALSE)
    /\ failed_files' = failed_files + 1
    /\ lines_processed' = 0
    /\ expanded_lines' = 0
    /\ pc' = "checked"
    /\ UNCHANGED <<script, dir_names, csv_files, line_num, valid_files, summary, exit_code,
                   out_file, written, total_lines, total_expanded_lines, dry_run,
                   lookup_failures, existing_is_output, dictpress_terms,
                   dictpress_before>>
    /\ UNCHANGED cnvIdle

\* back at the head of the file loop
CnvNextFile ==
    /\ script = "converter" /\ pc = "checked"
    /\ pc' = "loop"
    /\ cur_file' = <<>>
    /\ line_num' = 0
    /\ out_file' = NoFile
    /\ lines_processed' = 0
    /\ expanded_lines' = 0
    /\ UNCHANGED <<script, dir_names, csv_files, file_idx, is_valid, valid_files, verdicts,
                   summary, exit_code, written, total_lines, total_expanded_lines, dry_run,
                   lookup_failures>>
    /\ UNCHANGED <<cnvVars, cnvIdle>>

\* after the loop: the conversion summary, then sys.exit(1) if a file failed
CnvSummary ==
    /\ script = "converter" /\ pc = "loop" /\ file_idx = Len(csv_files)
    /\ summary' = [total |-> Len(csv_files), valid |-> valid_files, failed |-> failed_files,
                   lines |-> total_lines, output |-> total_expanded_lines]
    /\ exit_code' = IF failed_files > 0 THEN 1 ELSE 0
    /\ pc' = "done"
    /\ UNCHANGED <<script, dir_names, csv_files, file_idx, cur_file, line_num, is_valid,
                   valid_files, verdicts>>
    /\ UNCHANGED <<outVars, splVars, dry_run, lookup_failures, cnvVars, cnvIdle>>

CnvNext == CnvStart \/ CnvConvertFile \/ CnvFileFailed \/ CnvNextFile \/ CnvSummary

SpecConverter == CnvInit /\ [][CnvNext]_vars

----------------------------------------------------------------------------
(* convert_to_dictpress.py: calls of the row and row-list functions *)

MaxEntries == 3

\* rows convert_row is called with: eight, nine or ten fields, the word, the English
\* and the Tamil meaning empty, blank or a text with spaces around it
CnvRowArgs ==
    {SubSeq(<<w, <<"h">>, <<"t">>, <<"r">>, <<>>, <<>>, <<"i">>, e, t, <<"z">>>>, 1, n) :
        w \in {<<>>, <<SP>>, <<"k">>, <<SP, "k", SP>>},
        e \in {<<>>, <<SP>>, <<"x">>, <<"x", SP>>},
        t \in {<<>>, <<"u">>},
        n \in 8..10}

\* entries merge_duplicate_entries is called with: the word k with three pairs of
\* meanings and with no meaning, the word m, a row without a word, a row of eight fields
CnvEntrySamples ==
    {<<<<"k">>, <<"h">>, <<"t">>, <<"r">>, <<>>, <<>>, <<"i">>, <<"x">>, <<"u">>>>,
     <<<<"k", SP>>, <<"g">>, <<>>, <<>>, <<>>, <<>>, <<>>, <<"y">>, <<"u">>>>,
     <<<<"k">>, <<>>, <<>>, <<>>, <<>>, <<>>, <<>>, <<"x", SP>>, <<"v">>>>,
     <<<<"k">>, <<>>, <<>>, <<>>, <<>>, <<>>, <<>>, <<>>, <<>>>>,
     <<<<"m">>, <<>>, <<>>, <<"r">>, <<>>, <<>>, <<>>, <<"x">>, <<"v">>>>,
     <<<<SP>>, <<>>, <<>>, <<>>, <<>>, <<>>, <<>>, <<"y">>, <<"v">>>>,
     <<<<"k">>, <<"h">>, <<"t">>, <<"r">>, <<>>, <<>>, <<"i">>, <<"y">>>>}

\* rows of the output format: the main rows of the terms k and m, definitions (one
\* of them with a space after its content), a row of two fields
CnvOutputSamples ==
    {cnv_main_row(<<"k">>, <<>>, <<>>, <<>>, <<>>),
     cnv_main_row(<<"m">>, <<>>, <<>>, <<>>, <<>>),
     cnv_english_row(<<"x">>, <<>>, <<>>),
     cnv_english_row(<<"x", SP>>, <<>>, <<>>),
     cnv_tamil_row(<<"x">>, <<>>, <<>>, <<>>, <<>>),
     <<<<"^">>, <<"k">>>>}

CnvCallInit ==
    /\ pc = "start"
    /\ res = <<>>
    /\ \/ /\ script = "converter.convert_row"
          /\ arg \in [row : CnvRowArgs, filename : FileNames]
       \/ /\ script = "converter.merge_duplicate_entries"
          /\ arg \in [rows : SeqsUpTo(CnvEntrySamples, MaxEntries), filename : FileNames]
       \/ /\ script = "converter.remove_global_duplicates"
          /\ arg \in [all_output_rows : SeqsUpTo(CnvOutputSamples, MaxEntries),
                      existing_terms : SUBSET {<<"k">>, <<"m">>}]
       \/ /\ script = "converter.deduplicate_definitions"
          /\ arg \in [all_output_rows : SeqsUpTo(CnvOutputSamples, MaxEntries)]
       \/ /\ script = "converter.convert_file (rows)"
          /\ arg \in [rows : SeqsUpTo(CnvEntrySamples, MaxEntries), filename : FileNames,
                      existing_terms : CnvTermSets]
    /\ FnIdleInit

\* output_rows = self.convert_row(row, filename); the NLTK lookups work or fail
CnvCallConvertRow ==
    /\ script = "converter.convert_row" /\ pc = "start"
    /\ \E nltk_ok \in BOOLEAN : res' = convert_row(arg.row, arg.filename, nltk_ok)
    /\ pc' = "done"
    /\ UNCHANGED <<script, arg>>
    /\ UNCHANGED fnIdle

\* all_output_rows, duplicate_count = self.merge_duplicate_entries(rows, filename)
CnvCallMerge ==
    /\ script = "converter.merge_duplicate_entries" /\ pc = "start"
    /\ \E nltk_ok \in BOOLEAN : res' = merge_duplicate_entries(arg.rows, arg.filename, nltk_ok)
    /\ pc' = "done"
    /\ UNCHANGED <<script, arg>>
    /\ UNCHANGED fnIdle

\* filtered_rows, skipped_main_entries = self.remove_global_duplicates(rows, terms)
CnvCallRemoveGlobal ==
    /\ script = "converter.remove_global_duplicates" /\ pc = "start"
    /\ res' = remove_global_duplicates(arg.all_output_rows, arg.existing_terms)
    /\ pc' = "done"
    /\ UNCHANGED <<script, arg>>
    /\ UNCHANGED fnIdle

\* deduplicated_rows = self.deduplicate_definitions(all_output_rows)
CnvCallDeduplicate ==
    /\ script = "converter.deduplicate_definitions" /\ pc = "start"
    /\ res' = deduplicate_definitions(arg.all_output_rows)
    /\ pc' = "done"
    /\ UNCHANGED <<script, arg>>
    /\ UNCHANGED fnIdle

\* convert_file on an input file of a header line and the rows arg.rows, from the read
\* loop to the rows it writes (it writes them if there is one and this is no dry run)
CnvCallConvertFile ==
    /\ script = "converter.convert_file (rows)" /\ pc = "start"
    /\ \E nltk_ok \in BOOLEAN :
          res' = cnv_convert_file(<<CnvHeader>> \o arg.rows, arg.filename,
                                  arg.existing_terms, nltk_ok)
    /\ pc' = "done"
    /\ UNCHANGED <<script, arg>>
    /\ UNCHANGED fnIdle

CnvCallNext ==
    \/ CnvCallConvertRow \/ CnvCallMerge \/ CnvCallRemoveGlobal \/ CnvCallDeduplicate
    \/ CnvCallConvertFile

SpecConverterCalls == CnvCallInit /\ [][CnvCallNext]_vars

----------------------------------------------------------------------------
(* split_terms.py: a call of process_csv_line, or a run of main() *)

SplitInit == SplRowInit \/ SplInit

SplitNext == SplRowCall \/ SplNext

SpecSplit == SplitInit /\ [][SplitNext]_vars

----------------------------------------------------------------------------
(* convert_to_dictpress.py: convert_file calls and main() runs over one directory *)

\* convert_file(input_dir / name, output_dir / name, output_dir) without --dry-run, on an
\* input file f that has a header line: the files of the directory after the call.  The
\* existing terms are read from every other file of the directory; the output file is
\* opened for writing only if a row is left to write
cnv_convert_into(files, name, f, nltk_ok) ==
    LET terms == [n \in DOMAIN files |->
                    IF files[n] = NoFile THEN {} ELSE cnv_terms_of(files[n])]
        existing_terms == load_existing_sourashtra_terms(terms, name)
        r == CnvResults[name][nltk_ok][existing_terms][f]
    IN  IF r.all_output_rows # <<>>
        THEN [files EXCEPT ![name] = r.all_output_rows]
        ELSE files

\* either convert_file calls in any order on an empty directory, or two runs of main()
\* over the same two input files and a directory that may hold the files an earlier
\* run wrote for other inputs of one entry
CnvDirInit ==
    /\ pc = "start"
    /\ \/ /\ script = "converter.convert_file"
          /\ arg = <<>>
          /\ res = [files |-> [n \in FileNames |-> NoFile]]
       \/ /\ script = "converter.main"
          /\ arg \in [inputs : [1..2 -> CnvReadable], nltk_ok : BOOLEAN,
                      before : [1..2 -> {NoFile} \cup
                                  ({cnv_convert_file(<<CnvHeader, row>>, 1, {}, TRUE).all_output_rows :
                                        row \in CnvRowSamples} \ {<<>>})]]
          /\ res = [files |-> arg.before, converted |-> 0]
    /\ FnIdleInit

\* success, error, ... = converter.convert_file(csv_file, output_file, output_dir) for
\* any file name and any input file with a header line; arg keeps the name and the
\* words of the entries the input file had
CnvDirConvert ==
    /\ script = "converter.convert_file"
    /\ \E name \in FileNames, f \in CnvReadable, nltk_ok \in BOOLEAN :
          /\ (\E i \in 2..Len(f) : Len(f[i]) >= 9) \/ nltk_ok
          /\ arg' = [name |-> name,
                      words |-> {Strip(f[i][1]) : i \in {j \in 2..Len(f) : Len(f[j]) >= 9}}]
          /\ res' = [files |-> cnv_convert_into(res.files, name, f, nltk_ok)]
    /\ UNCHANGED <<script, pc>>
    /\ UNCHANGED fnIdle

\* main(): one iteration of "for csv_file in csv_files" over sorted(input_dir.glob(..)),
\* or the end of the run; the second run starts where the first one left the directory
CnvDirRun ==
    /\ script = "converter.main" /\ pc \in {"start", "again"}
    /\ LET csv_files_ == SortedSeq(DOMAIN arg.inputs)
       IN  IF res.converted < Len(csv_files_)
           THEN LET name == csv_files_[res.converted + 1]
                IN  /\ res' = [files |-> cnv_convert_into(res.files, name, arg.inputs[name],
                                                          arg.nltk_ok),
                               converted |-> res.converted + 1]
                    /\ pc' = pc
           ELSE /\ res' = [res EXCEPT !.converted = 0]
                /\ pc' = IF pc = "start" THEN "again" ELSE "done"
    /\ UNCHANGED <<script, arg>>
    /\ UNCHANGED fnIdle

CnvDirNext == CnvDirConvert \/ CnvDirRun

SpecConverterDir == CnvDirInit /\ [][CnvDirNext]_vars

----------------------------------------------------------------------------
(* Claims about the cleanup *)

\* the cleanup has just processed a file
ClnFileDone == script = "cleanup" /\ pc = "checked"

\* clean_bracket_terms and process_csv_line applied twice give what they give applied
\* once, for every text of ClnFieldTexts and every row of such a text and a second field
C3_FunctionsIdempotent ==
    \A t \in ClnFieldTexts :
        /\ clean_bracket_terms(clean_bracket_terms(t)) = clean_bracket_terms(t)
        /\ \A u \in {<<>>, <<"a">>, <<LPAR, "a", RPAR>>} :
              cln_process_csv_line(cln_process_csv_line(<<t, u>>)) = cln_process_csv_line(<<t, u>>)

\* C3 as stated: clean_bracket_terms and process_csv_line are idempotent, and a cleanup
\* run (not a dry run) over a file that an earlier cleanup run left behind records no
\* change and leaves the file as it is.
C3_AsStated ==
    /\ C3_FunctionsIdempotent
    /\ (ClnFileDone /\ ~dry_run /\ cur_file \in ClnCleaned) =>
          /\ changes_made = 0
          /\ out_file = (IF overwrite_mode THEN cur_file ELSE NoFile)

\* the characters of t from index i on that stand outside every bracketed term
RECURSIVE OutsideBrackets(_, _)
OutsideBrackets(t, i) ==
    IF i > Len(t) THEN <<>>
    ELSE IF t[i] = LPAR /\ FirstClose(t, i) # 0 THEN OutsideBrackets(t, FirstClose(t, i) + 1)
    ELSE <<t[i]>> \o OutsideBrackets(t, i + 1)

NoSpaces(t) == SelectSeq(t, LAMBDA c : ~IsSpace(c))

\* C6: process_csv_line returns a row with as many fields as its argument; no field of
\* it holds a bracketed term or begins or ends with whitespace, and apart from
\* whitespace each field is what its argument's field holds outside the bracketed
\* terms; the documented example row becomes the documented result.
C6_RowCleaned ==
    (script = "cleanup.process_csv_line" /\ pc = "done") =>
        /\ Len(res) = Len(arg)
        /\ \A i \in 1..Len(arg) :
              /\ ~field_has_bracket(res[i])
              /\ Strip(res[i]) = res[i]
              /\ NoSpaces(res[i]) = NoSpaces(OutsideBrackets(arg[i], 1))
        /\ arg = ClnExampleRow => res = ClnExampleCleaned

\* the documented example has been cleaned
C6_Witness ==
    /\ script = "cleanup.process_csv_line" /\ pc = "done"
    /\ arg = ClnExampleRow /\ res = ClnExampleCleaned /\ res # arg

\* the text t from index i on with a space in place of every bracketed term
RECURSIVE TermsAsSpaces(_, _)
TermsAsSpaces(t, i) ==
    IF i > Len(t) THEN <<>>
    ELSE IF t[i] = LPAR /\ FirstClose(t, i) # 0
    THEN <<SP>> \o TermsAsSpaces(t, FirstClose(t, i) + 1)
    ELSE <<t[i]>> \o TermsAsSpaces(t, i + 1)

\* the whitespace-separated words of t from index i on, in order
RECURSIVE WordsOf(_, _)
WordsOf(t, i) ==
    LET b == SkipSpaces(t, i) IN
    IF b > Len(t) THEN <<>>
    ELSE <<SubSeq(t, b, SkipWord(t, b) - 1)>> \o WordsOf(t, SkipWord(t, b))

\* the part of C18 that holds: the result holds no ( with a ) after it, and its words
\* joined without a separator are the words outside the bracketed terms so joined
C18_TermsRemoved ==
    (script = "cleanup.process_csv_line" /\ pc = "done") =>
        \A i \in 1..Len(arg) :
            /\ res[i] = clean_bracket_terms(arg[i])
            /\ ~field_has_bracket(res[i])
            /\ Concat(WordsOf(res[i], 1)) = Concat(WordsOf(TermsAsSpaces(arg[i], 1), 1))

\* C18 as stated: clean_bracket_terms gives a text that holds no ( with a ) after it
\* and whose whitespace-separated words are, in order, the words that stand outside the
\* bracketed terms of its argument, a term between two words keeping them apart.
C18_AsStated ==
    (script = "cleanup.process_csv_line" /\ pc = "done") =>
        \A i \in 1..Len(arg) :
            /\ res[i] = clean_bracket_terms(arg[i])
            /\ ~field_has_bracket(res[i])
            /\ WordsOf(res[i], 1) = WordsOf(TermsAsSpaces(arg[i], 1), 1)

\* the file-level half of C14 for files in which every record is one physical line
\* (no quoted field holds a line end): the lines without a bracketed term are kept
\* as they are and where they are
C14_SingleLineRecords ==
    (ClnFileDone /\ ~dry_run /\ Len(csv_parse(cur_file)) = Len(readlines(cur_file))) =>
        LET lines == readlines(cur_file)
            after == IF changes_made > 0 THEN readlines(out_file) ELSE lines
        IN  /\ Len(after) = Len(lines)
            /\ \A i \in 1..Len(lines) : ~field_has_bracket(lines[i]) => after[i] = lines[i]

\* C14 as stated: after the cleanup has processed a file outside a dry run, every line
\* of the file that holds no bracketed term stands unchanged at its position in what
\* the output path holds, and a file none of whose lines holds a bracketed term is not
\* written.
C14_AsStated ==
    (ClnFileDone /\ ~dry_run) =>
        LET lines == readlines(cur_file)
            after == IF changes_made > 0 THEN readlines(out_file) ELSE lines
        IN  /\ \A i \in 1..Len(lines) :
                  ~field_has_bracket(lines[i]) => (i <= Len(after) /\ after[i] = lines[i])
            /\ (\A i \in 1..Len(lines) : ~field_has_bracket(lines[i])) =>
                  (changes_made = 0 /\ out_file = (IF overwrite_mode THEN cur_file ELSE NoFile))

----------------------------------------------------------------------------
(* Claims about the reverser *)

\* the rows a reader of the tools finds in a file
RowsOf(text) == csv_parse(text_mode(text))

\* C4 as stated: for every row of five fields the reverser writes the row of the same
\* fields in the opposite order, and the reverser applied to the written row writes
\* the original row.
C4_AsStated ==
    (script = "reverser.row" /\ Len(arg) = 5) =>
        /\ pc \in {"written", "done"} =>
              RowsOf(res[1]) = <<[i \in 1..5 |-> arg[6 - i]]>>
        /\ pc = "done" => RowsOf(res[2]) = <<arg>>

\* C4 (amended): the same for every row of five fields that is not blank; for a blank
\* row the reverser writes nothing.
C4_NonBlankRows ==
    (script = "reverser.row" /\ Len(arg) = 5) =>
        IF IsBlankRow(arg)
        THEN pc \in {"written", "done"} => res[1] = <<>>
        ELSE /\ pc \in {"written", "done"} =>
                   RowsOf(res[1]) = <<[i \in 1..5 |-> arg[6 - i]]>>
             /\ pc = "done" => RowsOf(res[2]) = <<arg>>

\* a row with a quoted first field has gone through the reverser twice
C4_Witness ==
    /\ script = "reverser.row" /\ pc = "done"
    /\ arg = <<<<"b", COMMA>>, <<"a">>, <<>>, <<QUOTE>>, <<NL>>>>
    /\ RowsOf(res[1]) = << <<<<NL>>, <<QUOTE>>, <<>>, <<"a">>, <<"b", COMMA>>>> >>
    /\ RowsOf(res[2]) = <<arg>>

----------------------------------------------------------------------------
(* Claims about the splitter *)

HasSeparator(t) == \E k \in 1..Len(t) : t[k] \in {SLASH, COMMA}

\* a term as the example names one: no separator, no whitespace and no double quote at
\* either end
IsPlainTerm(t) ==
    /\ ~HasSeparator(t)
    /\ Strip(t) = t
    /\ t # <<>> => Head(t) # QUOTE /\ t[Len(t)] # QUOTE

\* t is two plain terms with one '/' between them
IsTermPair(t) ==
    \E k \in 1..Len(t) :
        t[k] = SLASH /\ IsPlainTerm(SubSeq(t, 1, k - 1)) /\ IsPlainTerm(SubSeq(t, k + 1, Len(t)))

FirstTerm(t) == LET k == CHOOSE k \in 1..Len(t) : t[k] = SLASH IN SubSeq(t, 1, k - 1)
SecondTerm(t) == LET k == CHOOSE k \in 1..Len(t) : t[k] = SLASH IN SubSeq(t, k + 1, Len(t))

\* C5: for plain terms a1, a2, b1, b2, c1 the row [a1/a2, b1/b2, c1, d, e] gives exactly
\* the rows [a1, b1, c1, d, e] and [a2, b2, c1, d, e], in that order (the documented
\* example included); and a row of five fields whose first three fields hold neither
\* '/' nor ',' gives the one row that is the argument.
C5_SplitRow ==
    (script = "splitter.process_csv_line" /\ pc = "done" /\ Len(arg) = 5) =>
        /\ (IsTermPair(arg[1]) /\ IsTermPair(arg[2]) /\ IsPlainTerm(arg[3])) =>
              res = << <<FirstTerm(arg[1]), FirstTerm(arg[2]), arg[3], arg[4], arg[5]>>,
                       <<SecondTerm(arg[1]), SecondTerm(arg[2]), arg[3], arg[4], arg[5]>> >>
        /\ arg = SplExampleRow =>
              res = << <<<<"a", "1">>, <<"b", "1">>, <<"c", "1">>, <<"d">>, <<"e">>>>,
                       <<<<"a", "2">>, <<"b", "2">>, <<"c", "1">>, <<"d">>, <<"e">>>> >>
        /\ (\A i \in 1..3 : ~HasSeparator(arg[i])) => res = <<arg>>

\* the documented example has been split in two rows
C5_Witness ==
    /\ script = "splitter.process_csv_line" /\ pc = "done"
    /\ arg = SplExampleRow /\ Len(res) = 2 /\ res[2][3] = <<"c", "1">>

----------------------------------------------------------------------------
(* Claims about the analyzer *)

\* the lines of the file f on which the term t is a main entry
MainEntryLines(f, t) ==
    {i \in 1..Len(f) : Len(f[i]) >= 4 /\ Strip(f[i][1]) = <<"-">> /\ Strip(f[i][3]) = t}

\* the analyzer has just printed the report of a file it could read
AnlFileReported ==
    /\ script = "analyzer" /\ pc \in {"loop", "single"} /\ file_idx > 0
    /\ verdicts[Len(verdicts)]

\* C7 as stated: a term that is a main entry in two different files of the analyzed
\* directory is reported, with its name and lines, for each of the two files.
C7_AsStated ==
    script = "analyzer" =>
        \A i, j \in 1..Len(report) :
            (i # j /\ verdicts[i] /\ verdicts[j]) =>
                \A t \in main_terms[i] \cap main_terms[j] :
                    \E d \in report[i].main_duplicates : d[1] = t

\* C7 (amended): analyze_file reports the duplicates of one file only.  The terms it
\* reports for a file are exactly the terms that are a main entry on more than one line
\* of that file, each with all of those lines in ascending order, whatever the other
\* files hold; a term that is a main entry once in each of two files is in no report.
C7_WithinFile ==
    /\ AnlFileReported =>
          report[Len(report)].main_duplicates =
              {<<t, SortedSeq(MainEntryLines(cur_file, t))>> :
                  t \in {u \in main_terms[Len(main_terms)] :
                            Cardinality(MainEntryLines(cur_file, u)) > 1}}
    /\ script = "analyzer" =>
          \A i \in 1..Len(report) :
              verdicts[i] =>
                  \A d \in report[i].main_duplicates : d[1] \in main_terms[i] /\ Len(d[2]) > 1

\* two files analyzed that share a main entry: the first holds it once and has no
\* duplicate reported, the second holds it twice and has it reported
C7_Witness ==
    /\ AnlFileReported /\ Len(report) = 2 /\ verdicts[1]
    /\ main_terms[1] \cap main_terms[2] # {}
    /\ report[1].main_duplicates = {}
    /\ report[2].main_duplicates = {<<<<"k">>, <<1, 2>>>>}

----------------------------------------------------------------------------
(* Claims about the converter *)

\* convert_file has just returned success for the file cur_file
CnvFileConverted == script = "converter" /\ pc = "checked" /\ is_valid

\* the content of the output path after a conversion outside a dry run that found the
\* rows all_output_rows: no file is written for no rows
CnvOutput(all_output_rows) == IF all_output_rows = <<>> THEN NoFile ELSE all_output_rows

\* the main-entry terms of the files of the existing-terms directory other than name
OtherFilesTerms(name) == UNION {dictpress_terms[n] : n \in (0..MaxFiles) \ {name}}

\* C10 as stated: the output the converter produces for a file is what it produces for
\* that file when there is no other file, whatever was converted before it and whatever
\* else the directory holds.
C10_AsStated ==
    (CnvFileConverted /\ ~dry_run) =>
        \E nltk_ok \in BOOLEAN :
            out_file = CnvOutput(CnvResults[csv_files[file_idx]][nltk_ok][{}][cur_file].all_output_rows)

\* C10 (amended): the output the converter produces for a file is determined by the
\* file, its name and the main-entry terms that the other CSV files of the existing-terms
\* directory hold when the file is converted (with the default directories these include
\* the output of the files converted before it in the same run); a file of that
\* directory with the input file's own name is not looked at.
C10_OtherFilesTerms ==
    (CnvFileConverted /\ ~dry_run) =>
        \E nltk_ok \in BOOLEAN :
            out_file = CnvOutput(CnvResults[csv_files[file_idx]][nltk_ok]
                                           [OtherFilesTerms(csv_files[file_idx])][cur_file]
                                     .all_output_rows)

\* the run has written the term k to the first output file, which is in the
\* existing-terms directory, and the second file's entry of k has been left out of its
\* output, which without the first file would hold it
C10_Witness ==
    /\ CnvFileConverted /\ ~dry_run /\ existing_is_output
    /\ file_idx = 2 /\ written = {1, 2}
    /\ dictpress_terms[0] = {} /\ dictpress_terms[1] = {<<"k">>}
    /\ \E i \in 1..Len(cur_file) : Len(cur_file[i]) = 9 /\ cur_file[i][1] = <<"k">>
    /\ \A i \in 1..Len(out_file) : out_file[i][3] # <<"k">>
    /\ \A nltk_ok \in BOOLEAN :
          out_file # CnvOutput(CnvResults[2][nltk_ok][{}][cur_file].all_output_rows)

----------------------------------------------------------------------------
(* Claims about the external lookups *)

\* the runs of the two tools that make external lookups
EnrichInit == TrlInit \/ CnvInit
EnrichNext == TrlNext \/ CnvNext
SpecEnrich == EnrichInit /\ [][EnrichNext]_vars

\* the rows a and b are the same rows but for their tsvector_tokens
SameButTokens(a, b) ==
    /\ Len(a) = Len(b)
    /\ \A i \in 1..Len(a) :
          Len(a[i]) = Len(b[i]) /\ \A j \in (1..Len(a[i])) \ {7} : a[i][j] = b[i][j]

\* a step in which a lookup fails leaves the run going and emits the row: the
\* transliterator keeps the row with four empty transliterations after at most one call
\* per scheme and is at the next row; the converter's convert_file succeeds with the rows
\* it gives when the lookups work, but for their tokens
C9_FailingStep ==
    lookup_failures' > lookup_failures =>
        /\ exit_code' = -1 /\ pc' \in {"infile", "checked"}
        /\ script = "transliterator" =>
              LET row == cur_file[line_num + 1]
              IN  /\ line_num' = line_num + 1
                  /\ all_processed_rows' =
                        Append(all_processed_rows,
                               <<row[1], row[2], row[3], <<>>, <<>>, <<>>, <<>>, row[4], row[5]>>)
                  /\ lines_processed' = lines_processed + 1
                  /\ calls' <= Len(TrlSchemes)
        /\ script = "converter" =>
              LET name == csv_files[file_idx + 1]
                  rows == CnvResults[name][TRUE][OtherFilesTerms(name)][cur_file'].all_output_rows
              IN  /\ is_valid' /\ valid_files' = valid_files + 1 /\ failed_files' = failed_files
                  /\ expanded_lines' = Len(rows)
                  /\ (~dry_run /\ rows # <<>>) => SameButTokens(out_file', rows)

\* C9: a failing external lookup (a transliteration, an NLTK lookup) never aborts the
\* run: it gives empty values, the row being processed is still emitted, and the run
\* goes on with the next row without calling again for the same row.
C9_FailOpen == [][C9_FailingStep]_vars

\* the transliterator has written a file whose first row failed to transliterate and is
\* there with four empty fields, and whose second row, read after it, was transliterated
C9_Witness ==
    /\ script = "transliterator" /\ pc = "checked" /\ is_valid
    /\ lookup_failures = 1 /\ Len(all_processed_rows) = 2
    /\ Len(all_processed_rows[1]) = 9 /\ Len(all_processed_rows[2]) = 9
    /\ Strip(all_processed_rows[1][1]) # <<>>
    /\ \A j \in 4..7 : all_processed_rows[1][j] = <<>>
    /\ \A j \in 4..7 : all_processed_rows[2][j] # <<>>
    /\ out_file = write_cleaned_rows(all_processed_rows)

----------------------------------------------------------------------------
(* Claims about the error policy of the tools *)

\* the runs of the six tools that process rows
ToolsInit == ValInit \/ RevInit \/ SplInit \/ TrlInit \/ ClnInit \/ CnvInit
ToolsNext == ValNext \/ RevNext \/ SplNext \/ TrlNext \/ ClnNext \/ CnvNext
SpecTools == ToolsInit /\ [][ToolsNext]_vars

\* the tools that count the fields of a row, and the count each expects
CountingTools == {"validator", "reverser", "splitter", "transliterator", "converter"}
ExpectedCount ==
    IF script = "validator" THEN expected_fields
    ELSE IF script = "converter" THEN 9
    ELSE RevColumns

\* the rows of the current file read so far that are not blank and have another field
\* count than the tool expects (the converter's first line is the header)
WrongCountRows ==
    IF script \notin CountingTools \/ cur_file = NoFile THEN {}
    ELSE {i \in (IF script = "converter" THEN 2 ELSE 1)..line_num :
             ~IsBlankRow(cur_file[i]) /\ Len(cur_file[i]) # ExpectedCount}

\* some file-level call has returned failure
SomeFileFailed == \E i \in 1..Len(verdicts) : ~verdicts[i]

\* the run has stopped with the summary and a non-zero status
Stopped == pc = "done" /\ exit_code = 1 /\ summary # <<>>

StopAtWrongCount ==
    script \in {"validator", "reverser"} =>
        /\ WrongCountRows \subseteq {line_num}
        /\ WrongCountRows # {} => Stopped /\ ~is_valid /\ ~verdicts[Len(verdicts)]

\* in every tool but the converter the first file-level failure is the last file-level
\* call of the run, and the run stops with the summary and status 1
StopAtFileError ==
    (script # "converter" /\ SomeFileFailed) =>
        /\ Stopped
        /\ \A i \in 1..Len(verdicts) : verdicts[i] <=> i < Len(verdicts)

\* the splitter and the transliterator go on after a row with a wrong field count and
\* count it as processed; the transliterator keeps the row as it is
PassWrongCount ==
    /\ (script \in {"splitter", "transliterator"} /\ WrongCountRows # {}
           /\ pc \in {"infile", "checked"}) => exit_code = -1
    /\ (script \in {"splitter", "transliterator"} /\ pc = "checked") =>
          lines_processed = Cardinality({i \in 1..Len(cur_file) : ~IsBlankRow(cur_file[i])})
    /\ (script = "transliterator" /\ pc \in {"infile", "checked"}) =>
          \A i \in WrongCountRows :
              \E k \in 1..Len(all_processed_rows) : all_processed_rows[k] = cur_file[i]

\* the converter leaves a row with a wrong field count out, converts the rest of the
\* file and goes on; after a file that failed it goes on with the next file, and after
\* the last file it prints the summary and exits with 1 if and only if a file failed
ConverterGoesOn ==
    script = "converter" =>
        /\ (pc = "checked" /\ is_valid) =>
              LET name == csv_files[file_idx]
                  kept == SelectSeq(Tail(cur_file), LAMBDA r : Len(r) = 9 \/ IsBlankRow(r))
              IN  /\ exit_code = -1
                  /\ expanded_lines =
                        Len(CnvResults[name][TRUE][OtherFilesTerms(name)]
                                      [<<CnvHeader>> \o kept].all_output_rows)
        /\ SomeFileFailed => failed_files > 0
        /\ (pc = "done" /\ csv_files # <<>>) =>
              /\ Len(verdicts) = Len(csv_files)
              /\ summary # <<>>
              /\ summary.failed = Cardinality({i \in 1..Len(verdicts) : ~verdicts[i]})
              /\ summary.valid + summary.failed = Len(csv_files)
              /\ exit_code = (IF SomeFileFailed THEN 1 ELSE 0)

\* the policy of each tool
C2_Policy ==
    /\ StopAtWrongCount
    /\ StopAtFileError
    /\ PassWrongCount
    /\ ConverterGoesOn
    /\ (exit_code # -1) <=> (pc = "done")

----------------------------------------------------------------------------
(* Claims about the transliterator *)

\* the transliterator has just written the output of the file cur_file
TrlFileWritten == script = "transliterator" /\ pc = "checked" /\ is_valid

\* the rows of a file that are not blank, in order
NonBlankRows(f) == SelectSeq(f, LAMBDA r : ~IsBlankRow(r))

\* the row r as the writing loop leaves it: no carriage return, a blank for a line feed
CleanedRow(r) == [j \in 1..Len(r) |-> clean_line_ends(r[j])]

\* the four transliterations of a word, none of the calls failing
FourTransliterations(word) == [k \in 1..4 |-> transliterate_process(TrlSchemes[k], Strip(word))]

\* C11 as stated: every row written has 9 fields, the input's first three fields
\* unchanged, the four transliterations of the first field, the input's last two fields
\* unchanged; one row per input row that is not blank, in input order.
C11_AsStated ==
    TrlFileWritten =>
        LET rows == csv_parse(out_file)
            kept == NonBlankRows(cur_file)
        IN  /\ Len(rows) = Len(kept)
            /\ \A i \in 1..Len(rows) :
                  /\ Len(rows[i]) = 9 /\ Len(kept[i]) = 5
                  /\ SubSeq(rows[i], 1, 3) = SubSeq(kept[i], 1, 3)
                  /\ SubSeq(rows[i], 4, 7) = FourTransliterations(kept[i][1])
                  /\ SubSeq(rows[i], 8, 9) = SubSeq(kept[i], 4, 5)

\* C11 (amended): one row is written per input row that is not blank, in input order,
\* each field without its carriage returns and with a blank for each line feed.  For an
\* input row of 5 fields the row written has 9 fields: the first three, then the four
\* transliterations of the trimmed first field or, where that field is blank or a
\* transliteration call failed, four empty fields, then the last two.  An input row with
\* another field count is written with the fields it has.
C11_RowsWritten ==
    TrlFileWritten =>
        LET rows == csv_parse(out_file)
            kept == NonBlankRows(cur_file)
        IN  /\ Len(rows) = Len(kept)
            /\ \A i \in 1..Len(rows) :
                  IF Len(kept[i]) = 5
                  THEN /\ Len(rows[i]) = 9
                       /\ SubSeq(rows[i], 1, 3) = CleanedRow(SubSeq(kept[i], 1, 3))
                       /\ SubSeq(rows[i], 8, 9) = CleanedRow(SubSeq(kept[i], 4, 5))
                       /\ \/ SubSeq(rows[i], 4, 7) = <<<<>>, <<>>, <<>>, <<>>>>
                          \/ /\ Strip(kept[i][1]) # <<>>
                             /\ SubSeq(rows[i], 4, 7) = FourTransliterations(kept[i][1])
                  ELSE rows[i] = CleanedRow(kept[i])

\* a file written from a row of 5 fields with a line feed in its last field and a row of
\* 4 fields: 9 fields with the line feed replaced, then the 4 fields as they were
C11_Witness ==
    /\ TrlFileWritten /\ lookup_failures = 0
    /\ Len(cur_file) = 2 /\ Len(cur_file[1]) = 5 /\ Len(cur_file[2]) = 4
    /\ cur_file[1][5] = <<"e", NL>>
    /\ Len(csv_parse(out_file)) = 2
    /\ Len(csv_parse(out_file)[1]) = 9 /\ csv_parse(out_file)[1][9] = <<"e", SP>>
    /\ csv_parse(out_file)[1][4] = <<"RomanReadable", "a">>
    /\ csv_parse(out_file)[2] = cur_file[2]

----------------------------------------------------------------------------
(* Claims about the converter's row functions *)

ConvertRowCalled == script = "converter.convert_row" /\ pc = "done"

\* C12: convert_row gives, for a row of at least nine fields whose word and English
\* meaning are not empty after trimming, exactly three rows of eleven fields: the main
\* row (type -, the first character of the word, the word, sourashtra), the English
\* definition row (type ^, english) and the Tamil definition row (type ^, tamil), in
\* this order; for every other row it gives no row
C12_FanOut ==
    ConvertRowCalled =>
        LET row == arg.row
        IN  IF Len(row) >= 9 /\ Strip(row[1]) # <<>> /\ Strip(row[8]) # <<>>
            THEN /\ Len(res) = 3
                 /\ \A i \in 1..3 : Len(res[i]) = 11
                 /\ res[1][1] = <<"-">>
                 /\ res[1][2] = <<Strip(row[1])[1]>>
                 /\ res[1][3] = Strip(row[1])
                 /\ res[1][4] = <<"sourashtra">>
                 /\ res[2][1] = <<"^">>
                 /\ res[2][3] = Strip(row[8])
                 /\ res[2][4] = <<"english">>
                 /\ res[3][1] = <<"^">>
                 /\ res[3][3] = Strip(row[9])
                 /\ res[3][4] = <<"tamil">>
            ELSE res = <<>>

\* a row of nine fields with spaces around its word and no Tamil meaning has been
\* converted to three rows
C12_Witness ==
    /\ ConvertRowCalled
    /\ Len(arg.row) = 9
    /\ arg.row[1] = <<SP, "k", SP>>
    /\ arg.row[8] = <<"x", SP>>
    /\ arg.row[9] = <<>>
    /\ Len(res) = 3
    /\ res[1][3] = <<"k">>
    /\ res[3][3] = <<>>

----------------------------------------------------------------------------
(* Claims about dry runs *)

\* what convert_file reports for the file f named name when the existing-terms
\* directory is as it was before the run, which is what a dry run finds
CnvDryRunCounts(name, f) ==
    {[input_rows |-> CnvResults[name][nltk_ok]
                         [load_existing_sourashtra_terms(dictpress_before, name)][f].total_rows,
      output_rows |-> Len(CnvResults[name][nltk_ok]
                              [load_existing_sourashtra_terms(dictpress_before, name)][f]
                          .all_output_rows)] : nltk_ok \in BOOLEAN}

\* the frame half of C13 for the converter: a dry run writes no file, so the
\* directories stay as they were before the run
C13_NothingWritten ==
    (script = "converter" /\ dry_run) =>
        written = {} /\ out_file = NoFile /\ dictpress_terms = dictpress_before

\* the frame half of C13 for the cleanup: a dry run opens no file for writing, and
\* after each file's call the output path, which is the input path, holds what it held
C13_CleanupNothingWritten ==
    (script = "cleanup" /\ dry_run) =>
        written = {} /\ overwrite_mode /\ (pc = "checked" => out_file = cur_file)

\* C13 as stated, for the converter: a dry run writes nothing and leaves the
\* directories as they were, and the counts a run reports for a file (input rows, output
\* rows) are those the dry run over the same directories reports for it.
C13_AsStated ==
    /\ C13_NothingWritten
    /\ CnvFileConverted =>
           [input_rows |-> lines_processed, output_rows |-> expanded_lines]
               \in CnvDryRunCounts(csv_files[file_idx], cur_file)

----------------------------------------------------------------------------
(* Claims about the converter's duplicate handling *)

RemoveGlobalCalled == script = "converter.remove_global_duplicates" /\ pc = "done"

\* a main row whose term is one of terms
IsExistingMain(r, terms) == Len(r) >= 4 /\ r[1] = <<"-">> /\ Strip(r[3]) \in terms

\* the rows of q at the given indexes, in order
RowsAt(q, indexes) == LET picked == SortedSeq(indexes) IN [k \in 1..Len(picked) |-> q[picked[k]]]

\* the index of the row of type - or of another type than ^ that row i of q comes
\* after without such a row in between (i itself if it is no row of type ^; 0: none)
RECURSIVE OwnerOf(_, _)
OwnerOf(q, i) ==
    IF i = 0 THEN 0
    ELSE IF Len(q[i]) >= 1 /\ q[i][1] = <<"^">> THEN OwnerOf(q, i - 1)
    ELSE i

\* what the code does where C15 says the definition rows are kept: the rows returned
\* are the rows given less the main rows whose term exists and less the rows of type ^
\* that follow such a main row directly; the count is the number of main rows removed
C15_DefinitionsRemoved ==
    RemoveGlobalCalled =>
        LET q == arg.all_output_rows
            removed == {i \in 1..Len(q) : IsExistingMain(q[i], arg.existing_terms)}
        IN  /\ res.rows = RowsAt(q, {i \in 1..Len(q) : OwnerOf(q, i) \notin removed})
            /\ res.skipped = Cardinality(removed)

\* C15 as stated: remove_global_duplicates returns the rows given less the main rows
\* whose term is in existing_terms, every other row (the definition rows of the removed
\* main rows too) kept in order, and the number of main rows removed.
C15_AsStated ==
    RemoveGlobalCalled =>
        LET q == arg.all_output_rows
            removed == {i \in 1..Len(q) : IsExistingMain(q[i], arg.existing_terms)}
        IN  /\ res.rows = RowsAt(q, (1..Len(q)) \ removed)
            /\ res.skipped = Cardinality(removed)

DeduplicateCalled == script = "converter.deduplicate_definitions" /\ pc = "done"

\* a definition row that has a content and a language, and its pair
IsDefinition(r) == Len(r) >= 4 /\ r[1] = <<"^">>
DefinitionKey(r) == <<Strip(r[3]), Strip(r[4])>>

\* C16: deduplicate_definitions returns the rows given, in their order, less every
\* definition row whose (trimmed content, trimmed language) pair an earlier definition
\* row has: every main row is kept, the result holds no two definition rows with the
\* same pair, and deduplicating the result again gives the result
C16_FirstDefinitionKept ==
    DeduplicateCalled =>
        LET q == arg.all_output_rows
            repeated == {i \in 1..Len(q) :
                            /\ IsDefinition(q[i])
                            /\ \E j \in 1..(i - 1) :
                                  IsDefinition(q[j]) /\ DefinitionKey(q[j]) = DefinitionKey(q[i])}
        IN  /\ res = RowsAt(q, (1..Len(q)) \ repeated)
            /\ \A i, j \in 1..Len(res) :
                  (i < j /\ IsDefinition(res[i]) /\ IsDefinition(res[j]))
                      => DefinitionKey(res[i]) # DefinitionKey(res[j])
            /\ deduplicate_definitions(res) = res

\* of an English definition x, an English definition x with a space after it and a
\* Tamil definition x, the first and the third have been kept
C16_Witness ==
    /\ DeduplicateCalled
    /\ Len(arg.all_output_rows) = 3
    /\ arg.all_output_rows[1] = cnv_english_row(<<"x">>, <<>>, <<>>)
    /\ arg.all_output_rows[2] = cnv_english_row(<<"x", SP>>, <<>>, <<>>)
    /\ arg.all_output_rows[3] = cnv_tamil_row(<<"x">>, <<>>, <<>>, <<>>, <<>>)
    /\ res = <<arg.all_output_rows[1], arg.all_output_rows[3]>>

MergeCalled == script = "converter.merge_duplicate_entries" /\ pc = "done"

\* the entries of the rows q: the rows of at least nine fields that have a word
EntriesOf(q) == SelectSeq(q, LAMBDA r : Len(r) >= 9 /\ Strip(r[1]) # <<>>)
\* the entries of the word w
EntriesFor(q, w) == SelectSeq(EntriesOf(q), LAMBDA r : Strip(r[1]) = w)
\* the distinct meanings in field j of the entries of w that are not empty
MeaningsOf(q, w, j) == {Strip(EntriesFor(q, w)[i][j]) : i \in 1..Len(EntriesFor(q, w))} \ {<<>>}

IsMainRow(r) == Len(r) = 11 /\ r[1] = <<"-">>
\* the rows of out from its main row at index i up to the next main row
BlockAt(out, i) ==
    LET later == {j \in (i + 1)..Len(out) : IsMainRow(out[j])}
        last == IF later = {} THEN Len(out) ELSE (CHOOSE j \in later : \A k \in later : j <= k) - 1
    IN  SubSeq(out, i, last)

----------------------------------------------------------------------------
(* Claims about the splitter's expansion *)

SplitRowCalled == script = "splitter.process_csv_line" /\ pc = "done"
SplFileDone == script = "splitter" /\ pc = "checked"

\* the indexes of t that hold a separator
SeparatorsOf(t) == {k \in 1..Len(t) : t[k] \in {SLASH, COMMA}}
\* the number of terms of a field
TermCount(field) == 1 + Cardinality(SeparatorsOf(field))
\* what is split: the field without the whitespace around it and without the double
\* quotes around that
SplitText(field) ==
    LET f == Strip(field)
    IN  IF f # <<>> /\ Head(f) = QUOTE /\ f[Len(f)] = QUOTE THEN SubSeq(f, 2, Len(f) - 1) ELSE f
\* the j-th term of a field: what stands between its separators j - 1 and j, trimmed
TermAt(field, j) ==
    LET t == SplitText(field)
        at == SortedSeq(SeparatorsOf(t))
    IN  Strip(SubSeq(t, IF j = 1 THEN 1 ELSE at[j - 1] + 1,
                        IF j > Len(at) THEN Len(t) ELSE at[j] - 1))
\* the largest number of a set of numbers
Largest(S) == CHOOSE n \in S : \A m \in S : m <= n
\* the rows a row of five fields is expanded to: as many as the longest of the first
\* three term lists, a shorter list going on with its last term; a row with one term
\* in each of the three fields stays as it is
ExpandedRows(row) ==
    LET m == Largest({TermCount(row[1]), TermCount(row[2]), TermCount(row[3])})
        term(i, j) == TermAt(row[i], IF j <= TermCount(row[i]) THEN j ELSE TermCount(row[i]))
    IN  IF m = 1 THEN <<row>>
        ELSE [j \in 1..m |-> <<term(1, j), term(2, j), term(3, j), row[4], row[5]>>]

----------------------------------------------------------------------------
(* Claims about the converter's output under the analyzer *)

CnvFileWritten == CnvFileConverted /\ ~dry_run /\ out_file # NoFile

\* C20: what analyze_file finds in a file that convert_file has written: no main
\* entry content on two lines and no (content, language) of a definition on two lines,
\* whatever the input file and the existing-terms directory hold
C20_NoViolations ==
    CnvFileWritten =>
        /\ analyze_file(out_file).main_duplicates = {}
        /\ analyze_file(out_file).def_duplicates = {}
        /\ \A i, j \in 1..Len(out_file) :
              (i < j /\ out_file[i][1] = out_file[j][1]) =>
                  <<Strip(out_file[i][3]), Strip(out_file[i][4])>>
                      # <<Strip(out_file[j][3]), Strip(out_file[j][4])>>

\* the entries k and m with the same English meaning have been written as five rows:
\* the English definition is there once
C20_Witness ==
    /\ CnvFileWritten
    /\ Len(cur_file) = 3
    /\ Len(cur_file[2]) = 9 /\ cur_file[2][1] = <<"k">> /\ cur_file[2][8] = <<"x">>
    /\ Len(cur_file[3]) = 9 /\ cur_file[3][1] = <<"m">> /\ cur_file[3][8] = <<"x">>
    /\ Len(out_file) = 5
    /\ analyze_file(out_file).main_entries = 2
    /\ analyze_file(out_file).definition_entries = 3

----------------------------------------------------------------------------
(* Claims about the converter's main loop *)

\* what holds in every state of a converter run: the files are the sorted names, each
\* file attempted so far is counted once, as successful or as failed; the run ends
\* only after the last file, with the summary, and with status 1 exactly if a file failed
C21_Counts ==
    script = "converter" =>
        /\ csv_files \in {<<>>, SortedSeq(dir_names)}
        /\ Len(verdicts) = file_idx
        /\ valid_files = Cardinality({i \in 1..Len(verdicts) : verdicts[i]})
        /\ failed_files = Cardinality({i \in 1..Len(verdicts) : ~verdicts[i]})
        /\ valid_files + failed_files = file_idx
        /\ (pc = "done" /\ csv_files # <<>>) =>
              /\ file_idx = Len(csv_files)
              /\ summary = [total |-> Len(csv_files), valid |-> valid_files,
                            failed |-> failed_files, lines |-> total_lines,
                            output |-> total_expanded_lines]
              /\ exit_code = (IF failed_files > 0 THEN 1 ELSE 0)
        /\ pc # "done" => (exit_code = -1 /\ summary = <<>>)

\* what holds of every step that attempts a file: it is the next file of the sorted
\* list, and the row totals grow by the file's counts if it succeeds and stay if it fails
C21_Totals ==
    (script = "converter" /\ file_idx' # file_idx) =>
        /\ file_idx' = file_idx + 1
        /\ Len(verdicts') = Len(verdicts) + 1
        /\ IF verdicts'[Len(verdicts')]
           THEN /\ total_lines' = total_lines + lines_processed'
                /\ total_expanded_lines' = total_expanded_lines + expanded_lines'
           ELSE UNCHANGED <<total_lines, total_expanded_lines>>

\* C21: the converter's main loop attempts every matched file in sorted order, also
\* after a file has failed, counts each file once as successful or failed, adds the row
\* totals of the successful files only, and exits with status 1 after the summary if
\* and only if a file has failed
C21_MainLoop == [](C21_Counts) /\ [][C21_Totals]_vars

\* the first of two files has failed, the second has been converted with its rows
\* counted, and the run has ended with status 1 after the summary
C21_Witness ==
    /\ script = "converter" /\ pc = "done"
    /\ csv_files = <<1, 2>>
    /\ verdicts = <<FALSE, TRUE>>
    /\ summary # <<>>
    /\ summary.valid = 1 /\ summary.failed = 1
    /\ summary.lines = 2 /\ summary.output > 0
    /\ exit_code = 1

----------------------------------------------------------------------------
(* Claims about the converter's output directory *)

\* the contents of the main rows of a file of the directory (none: no such file)
MainContents(rows) ==
    IF rows = NoFile THEN {}
    ELSE {rows[i][3] : i \in {j \in 1..Len(rows) : Len(rows[j]) >= 3 /\ rows[j][1] = <<"-">>}}

\* the directory held no file before the first convert_file call
CnvDirStartedEmpty ==
    \/ script = "converter.convert_file"
    \/ script = "converter.main" /\ \A n \in DOMAIN arg.before : arg.before[n] = NoFile

CnvSecondRunStep == script = "converter.main" /\ pc = "again"

\* C23 (what the code does): after a complete run that started on an empty directory, a
\* second complete run over the same inputs rewrites every file with the rows it had
\* and creates no file.
C23_IdempotentFromEmpty ==
    [][(CnvSecondRunStep /\ CnvDirStartedEmpty) => res'.files = res.files]_vars

\* C23 witness of the above: the second run is over, the directory started empty, and
\* it holds a file with the main entry k and a file with the main entry m
C23_Witness ==
    /\ script = "converter.main" /\ pc = "done" /\ CnvDirStartedEmpty
    /\ MainContents(res.files[1]) = {<<"k">>}
    /\ MainContents(res.files[2]) = {<<"m">>}

\* C23: after one complete run over a set of input files into a directory that is both
\* the output and the existing-terms directory, a second complete run over the same
\* inputs leaves every output file with the same rows.
C23_AsStated == [][CnvSecondRunStep => res'.files = res.files]_vars

----------------------------------------------------------------------------
(* Claims about the converter's entries *)

\* convert_file has computed the rows of an output file
ConvertFileCalled == script = "converter.convert_file (rows)" /\ pc = "done"

\* C24: in every file convert_file writes, each main ('-') row is immediately followed
\* by at least one definition ('^') row: no main entry is left without a definition
\* after merging, global-duplicate removal and definition de-duplication.
C24_AsStated ==
    ConvertFileCalled =>
        \A i \in 1..Len(res.all_output_rows) :
            res.all_output_rows[i][1] = <<"-">> =>
                /\ i < Len(res.all_output_rows)
                /\ res.all_output_rows[i + 1][1] = <<"^">>

\* C24 (what the code does): a definition row never opens the file nor follows anything
\* but a main row or a definition row, and no two definition rows of a file have the
\* same stripped content and language -- whichever entry they were made for.
C24_DefinitionsUniquePerFile ==
    ConvertFileCalled =>
        LET rows == res.all_output_rows
        IN  /\ rows # <<>> => rows[1][1] = <<"-">>
            /\ \A i, j \in 1..Len(rows) :
                  (i < j /\ rows[i][1] = <<"^">> /\ rows[j][1] = <<"^">>)
                      => <<Strip(rows[i][3]), Strip(rows[i][4])>>
                             # <<Strip(rows[j][3]), Strip(rows[j][4])>>

----------------------------------------------------------------------------
(* Claims about the reverser's rejected files *)

\* the reverser has rejected the file it attempted last
RevFileRejected ==
    script = "reverser" /\ pc = "done" /\ verdicts # <<>> /\ ~verdicts[Len(verdicts)]

\* C25: if the reverser rejects an input file (a row that is not blank and has not five
\* columns, or a read error), no output file has been created or truncated for it and
\* no reversed row of it is on disk.
C25_AsStated ==
    RevFileRejected => (out_file = NoFile /\ csv_files[file_idx] \notin written)

\* C25 (what the code does): the output file of a rejected file is untouched only if
\* the input could not be opened; otherwise it has been created or truncated and holds
\* the reversed rows of the rows read before the failure.
C25_PartialOutput ==
    RevFileRejected =>
        IF csv_files[file_idx] \in written
        THEN /\ out_file # NoFile
             /\ out_file = rev_output(SubSeq(cur_file, 1, line_num), 1)
        ELSE out_file = NoFile /\ cur_file = <<>> /\ line_num = 0

----------------------------------------------------------------------------
(* Claims about the validator *)

Min(S) == CHOOSE x \in S : \A y \in S : x <= y
IsAscending(q) == \A i, j \in 1..Len(q) : i < j => q[i] < q[j]

\* the last check_csv_file call has returned, and it could read the file
ValFileChecked ==
    script = "validator" /\ file_idx > 0 /\ pc \in {"checked", "done"} /\ error_info # 0

\* C1 as stated: a readable file is accepted if and only if every row has exactly
\* expected_fields fields; a rejected file reports the 1-based position of the first
\* row with another field count, and no row after that one is read.
C1_AsStated ==
    ValFileChecked =>
        LET bad == {i \in 1..Len(cur_file) : Len(cur_file[i]) # expected_fields}
        IN  /\ bad = {} => is_valid
            /\ bad # {} => ~is_valid /\ error_info = Min(bad) /\ line_num = error_info

\* C1 (amended): a readable file is accepted if and only if every non-blank row (a
\* row with a field that is not only whitespace) has exactly expected_fields fields;
\* a rejected file reports the 1-based position, blank rows counted, of the first
\* non-blank row with another field count, and no row after that one is read.
C1_NonBlankRows ==
    ValFileChecked =>
        LET bad == {i \in 1..Len(cur_file) :
                        ~IsBlankRow(cur_file[i]) /\ Len(cur_file[i]) # expected_fields}
        IN  /\ bad = {} => is_valid /\ line_num = Len(cur_file)
            /\ bad # {} => ~is_valid /\ error_info = Min(bad) /\ line_num = error_info

\* a file rejected at its second row, after a blank first row with a wrong field count
C1_Witness ==
    /\ ValFileChecked /\ ~is_valid /\ error_info = 2
    /\ IsBlankRow(cur_file[1]) /\ Len(cur_file[1]) # expected_fields

\* C8: with a positive --fields the validator takes the files in ascending name
\* order; it exits 1 at the first invalid file, every file before it valid and the
\* summary's valid count the number of files before it; it exits 0 exactly when
\* every file of the directory was checked and found valid (an empty directory
\* included); and nothing is checked after the exit.
C8_Inv ==
    (script = "validator" /\ expected_fields > 0 /\ pc # "start") =>
        /\ IsAscending(csv_files)
        /\ {csv_files[i] : i \in 1..Len(csv_files)} = dir_names
        /\ Len(csv_files) = Cardinality(dir_names)
        /\ (exit_code # -1) <=> (pc = "done")
        /\ exit_code = 1 =>
              /\ Len(verdicts) = file_idx
              /\ ~verdicts[file_idx]
              /\ \A i \in 1..(file_idx - 1) : verdicts[i]
              /\ summary.valid = file_idx - 1
              /\ summary.checked = file_idx
        /\ pc = "done" =>
              ((exit_code = 0) <=>
                  /\ Len(verdicts) = Len(csv_files)
                  /\ \A i \in 1..Len(verdicts) : verdicts[i])

====
